---------------------------- MODULE Spec2Model ----------------------------
(***************************************************************************)
(* A model of the ecc package: the polynomial ring F_m[x] (polynomial.go), *)
(* the curve group law in Jacobian coordinates and the SEC 1 encodings     *)
(* (curve.go), ECDSA (Sign / Verify), the ECDLP solvers (dlp.go) and       *)
(* Schoof's algorithm with its worker goroutines (schoof.go).              *)
(*                                                                         *)
(* math/big integers are unbounded; the model checker's integers are 32    *)
(* bits wide.  Wherever the code forms a product of two field elements and *)
(* reduces the final result with Mod, the model reduces the factors first: *)
(* Mod is a ring homomorphism, so the reduced result is the same number.   *)
(***************************************************************************)
EXTENDS Integers, Sequences, FiniteSets, TLC

(***************************************************************************)
(* math/big helpers                                                        *)
(***************************************************************************)

\* A nil error.
Nil == "nil"

\* A nil Poly is the nil slice, of length 0.
NilPoly == << >>

\* A nil *Endo.
NilEndo == [x |-> NilPoly, y |-> NilPoly]

\* TRUE, once v has been computed.  An operator's argument is computed where
\* it is first used; the loops below compute each iteration's values before
\* they start the next one, as the code does.
Evaluated(v) == v = v

Abs(a) == IF a < 0 THEN -a ELSE a

MaxOf(S) == CHOOSE x \in S : \A y \in S : y <= x

RECURSIVE IntGCD(_, _)
IntGCD(a, b) == IF b = 0 THEN Abs(a) ELSE IntGCD(b, a % Abs(b))

\* Extended Euclid on (a, n): <<g, x>> with a*x = g (mod n).
RECURSIVE ExtEuclid(_, _, _, _, _)
ExtEuclid(r0, r1, s0, s1, n) ==
    IF r1 = 0 THEN <<r0, s0 % n>>
    ELSE LET k == r0 \div r1
         IN ExtEuclid(r1, r0 - k * r1, s1, (s0 - (((k % n) * s1) % n)) % n, n)

\* big.Int.ModInverse(g, n): the inverse v of g in Z/nZ; ok = FALSE is the
\* nil it returns when g and n are not relatively prime (the receiver is then
\* left unchanged).
IntModInverse(g, n) ==
    LET e == ExtEuclid(g % n, n, 1, 0, n)
    IN IF n = 1 THEN [ok |-> TRUE, v |-> 0]
       ELSE IF e[1] = 1 THEN [ok |-> TRUE, v |-> e[2]]
       ELSE [ok |-> FALSE, v |-> 0]

\* big.Int.BitLen
RECURSIVE BitLen(_)
BitLen(e) == IF e = 0 THEN 0 ELSE 1 + BitLen(e \div 2)

\* The bits of e.Bytes(), most significant first: whole bytes, so the top
\* byte's leading zero bits are included; e = 0 has no bytes.
RECURSIVE BitsOf(_, _)
BitsOf(e, n) == IF n = 0 THEN << >> ELSE Append(BitsOf(e \div 2, n - 1), e % 2)

ByteBits(e) == BitsOf(e, 8 * ((BitLen(e) + 7) \div 8))

(***************************************************************************)
(* polynomial.go: Poly is the coefficient sequence, constant term first.   *)
(***************************************************************************)

\* A coefficient slice with every element computed (make + the fill loop).
MakePoly(f) == f \o << >>

NewPolyFromInt(s) == s

trim(p) ==
    IF p[Len(p)] # 0 THEN p
    ELSE SubSeq(p, 1, MaxOf({1} \cup {i \in 2..Len(p) : p[i] # 0}))

sanitize(p, m) == trim(MakePoly([i \in 1..Len(p) |-> p[i] % m]))

Deg(p) == Len(p) - 1

isZero(p) == Deg(p) = 0 /\ p[1] = 0

\* The first index at which p and q differ (0 if none); equal lengths.
RECURSIVE FirstDiff(_, _, _)
FirstDiff(p, q, i) ==
    IF i > Len(p) THEN 0
    ELSE IF p[i] # q[i] THEN i ELSE FirstDiff(p, q, i + 1)

\* Cmp of two polynomials of one length that first differ at index d.
CmpAt(p, q, d) == IF d = 0 THEN 0 ELSE IF p[d] < q[d] THEN -1 ELSE 1

Cmp(p, q) ==
    IF Len(p) > Len(q) THEN 1
    ELSE IF Len(p) < Len(q) THEN -1
    ELSE CmpAt(p, q, FirstDiff(p, q, 1))

\* Add after the swap that makes p the larger operand: only the first len(q)
\* coefficients are added and reduced, the rest are p's own.
AddOrdered(p, q, m) ==
    trim(MakePoly([i \in 1..Len(p) |->
            IF i <= Len(q) THEN (p[i] + q[i]) % m ELSE p[i]]))

Add(p, q, m) == IF Cmp(p, q) < 0 THEN AddOrdered(q, p, m) ELSE AddOrdered(p, q, m)

PolyNeg(p) == MakePoly([i \in 1..Len(p) |-> -p[i]])

\* Sub, the branch without the swap: s - t for s >= t.
SubOrdered(s, t, m) ==
    trim(MakePoly([i \in 1..Len(s) |->
            (IF i <= Len(t) THEN s[i] - t[i] ELSE s[i]) % m]))

\* Sub, the branch with the swap: s is the subtrahend, t the shorter minuend.
SubSwapped(s, t, m) ==
    trim(MakePoly([i \in 1..Len(s) |->
            (IF i <= Len(t) THEN t[i] - s[i] ELSE -s[i]) % m]))

Sub(p, q, m) == IF Cmp(p, q) < 0 THEN SubSwapped(q, p, m) ELSE SubOrdered(p, q, m)

\* r[k] of Mul: the sum of p[i] * q[k-i] over the i in lo..hi, reduced mod m
\* (Mul sums the products and sanitize reduces the sums).
RECURSIVE MulCoef(_, _, _, _, _, _)
MulCoef(p, q, m, k, lo, hi) ==
    IF lo > hi THEN 0
    ELSE IF lo = hi THEN ((p[lo] % m) * (q[k - lo + 1] % m)) % m
    ELSE (MulCoef(p, q, m, k, lo, (lo + hi) \div 2)
            + MulCoef(p, q, m, k, (lo + hi) \div 2 + 1, hi)) % m

Mul(p, q, m) ==
    trim(MakePoly([k \in 1..(Len(p) + Len(q) - 1) |->
            MulCoef(p, q, m, k,
                    IF k > Len(q) THEN k - Len(q) + 1 ELSE 1,
                    IF k < Len(p) THEN k ELSE Len(p))]))

MulInt(p, a, m) == Mul(p, <<a>>, m)

\* One round of the bit loop of Exp: square, and multiply by p on a 1 bit.
ExpStep(sq, p, bit, m) == IF bit = 1 THEN Mul(sq, p, m) ELSE sq

RECURSIVE ExpBits(_, _, _, _, _)
ExpBits(r, p, bits, i, m) ==
    IF Evaluated(r) /\ i > Len(bits) THEN r
    ELSE ExpBits(ExpStep(Mul(r, r, m), p, bits[i], m), p, bits, i + 1, m)

Exp(p, e, m) == trim(ExpBits(<<1>>, p, ByteBits(e), 1, m))

\* The quotient digit r of one round of Div: quo[rd] keeps its value when
\* q's leading coefficient has no inverse (ModInverse leaves r as it is).
DivDigit(quo, rem, q, m, inv) ==
    ((IF inv.ok THEN inv.v ELSE quo[Len(rem) - Len(q) + 1]) * rem[Len(rem)]) % m

\* u of one round of Div: q * r shifted by rd.
DivShift(q, rd, r, m) ==
    MakePoly([i \in 1..(Len(q) + rd) |->
        IF i <= rd THEN 0 ELSE ((q[i - rd] % m) * r) % m])

\* The long-division loop of Div; inv is the inverse of q's leading
\* coefficient.  halts = FALSE stands for the loop that never ends: without
\* that inverse the quotient digit stays 0 and rem is never shortened.
RECURSIVE DivLoop(_, _, _, _, _)
DivRound(quo, rem, q, m, inv, r, nrem) ==
    IF Len(nrem) = Len(rem) /\ ~inv.ok
      THEN [quo |-> quo, rem |-> rem, halts |-> FALSE]
      ELSE DivLoop([quo EXCEPT ![Len(rem) - Len(q) + 1] = r], nrem, q, m, inv)

DivReduce(quo, rem, q, m, inv, r) ==
    DivRound(quo, rem, q, m, inv, r,
             Sub(rem, DivShift(q, Len(rem) - Len(q), r, m), m))

DivLoop(quo, rem, q, m, inv) ==
    IF Evaluated(quo) /\ (Len(rem) - Len(q) < 0 \/ isZero(rem))
      THEN [quo |-> quo, rem |-> rem, halts |-> TRUE]
      ELSE DivReduce(quo, rem, q, m, inv, DivDigit(quo, rem, q, m, inv))

\* Div that returns (0, p) for a p as long as q, too.
DivFullEarly(p, q, m) ==
    IF Len(p) <= Len(q)
      THEN [quo |-> <<0>>, rem |-> MakePoly([i \in 1..Len(p) |-> p[i] % m]),
            halts |-> TRUE]
      ELSE DivLoop(MakePoly([i \in 1..(Len(p) - Len(q) + 1) |-> 0]),
                   MakePoly([i \in 1..Len(p) |-> p[i] % m]),
                   q, m, IntModInverse(q[Len(q)], m))

\* Div: p is reduced mod m in place first (its length is kept).
DivFull(p, q, m) ==
    IF Len(p) < Len(q)
      THEN [quo |-> <<0>>, rem |-> MakePoly([i \in 1..Len(p) |-> p[i] % m]),
            halts |-> TRUE]
      ELSE DivLoop(MakePoly([i \in 1..(Len(p) - Len(q) + 1) |-> 0]),
                   MakePoly([i \in 1..Len(p) |-> p[i] % m]),
                   q, m, IntModInverse(q[Len(q)], m))

DivPair(d) == <<d.quo, d.rem>>

Div(p, q, m) == DivPair(DivFull(p, q, m))

Monic(p, m) == DivFull(p, <<p[Len(p)]>>, m).quo

\* The Euclid loop of ExtendedGCD; halts = FALSE when a Div inside it never
\* returns.
RECURSIVE ExtendedGCDLoop(_, _, _, _, _, _, _)
ExtendedGCDRound(oldR, r, oldS, s, oldT, t, m, d) ==
    IF ~d.halts THEN [r |-> oldR, s |-> oldS, t |-> oldT, halts |-> FALSE]
    ELSE ExtendedGCDLoop(r, Sub(oldR, Mul(d.quo, r, m), m),
                         s, Sub(oldS, Mul(d.quo, s, m), m),
                         t, Sub(oldT, Mul(d.quo, t, m), m), m)

ExtendedGCDLoop(oldR, r, oldS, s, oldT, t, m) ==
    IF Evaluated(<<s, t>>) /\ isZero(r)
      THEN [r |-> oldR, s |-> oldS, t |-> oldT, halts |-> TRUE]
      ELSE ExtendedGCDRound(oldR, r, oldS, s, oldT, t, m, DivFull(oldR, r, m))

ExtendedGCDStart(p, q, m) == ExtendedGCDLoop(p, q, <<1>>, <<0>>, <<0>>, <<1>>, m)

ExtendedGCDMonic(e, m) == <<Monic(e.r, m), e.s, e.t>>

ExtendedGCD(p, q, m) == ExtendedGCDMonic(ExtendedGCDStart(p, q, m), m)

ExtendedGCDEnds(e, m) == e.halts /\ DivFull(e.r, <<e.r[Len(e.r)]>>, m).halts

\* ExtendedGCD returns: none of its division loops runs forever.
ExtendedGCDHalts(p, q, m) == ExtendedGCDEnds(ExtendedGCDStart(p, q, m), m)

GCD(p, q, m) == ExtendedGCD(p, q, m)[1]

\* The Euclid loop of ModInverse; halts = FALSE when a Div inside it never
\* returns.
RECURSIVE ModInverseLoop(_, _, _, _, _)
ModInverseRound(r, newR, t, newT, m, d) ==
    IF ~d.halts THEN [r |-> r, t |-> t, halts |-> FALSE]
    ELSE ModInverseLoop(newR, Sub(r, Mul(d.quo, newR, m), m),
                        newT, Sub(t, Mul(d.quo, newT, m), m), m)

ModInverseLoop(r, newR, t, newT, m) ==
    IF Evaluated(newT) /\ isZero(newR) THEN [r |-> r, t |-> t, halts |-> TRUE]
    ELSE ModInverseRound(r, newR, t, newT, m, DivFull(r, newR, m))

ModInverseStart(p, h, m) == ModInverseLoop(h, p, <<0>>, <<1>>, m)

\* The end of ModInverse: nil when the gcd r has positive degree.
ModInverseEnd(e, m) ==
    IF Len(e.r) > 1 THEN NilPoly
    ELSE Mul(DivFull(<<1>>, e.r, m).quo, e.t, m)

ModInverse(p, h, m) ==
    IF m = 1 THEN <<0>>
    ELSE ModInverseEnd(ModInverseStart(p, h, m), m)

ModInverseEnds(e, m) == e.halts /\ (Len(e.r) > 1 \/ DivFull(<<1>>, e.r, m).halts)

\* ModInverse returns: none of its division loops runs forever.
ModInverseHalts(p, h, m) == m = 1 \/ ModInverseEnds(ModInverseStart(p, h, m), m)

\* The coefficients of p shifted down and reduced, without the factor i.
DerivUnscaled(p, m) ==
    IF Len(p) = 1 THEN <<0>>
    ELSE trim(MakePoly([i \in 1..(Len(p) - 1) |-> p[i + 1] % m]))

\* p.Deriv(m)
Deriv(p, m) ==
    IF Len(p) = 1 THEN <<0>>
    ELSE trim(MakePoly([i \in 1..(Len(p) - 1) |-> (p[i + 1] * i) % m]))

\* The Horner loop of Eval from coefficient i down; p[deg] itself is not
\* reduced.
RECURSIVE EvalLoop(_, _, _, _, _)
EvalLoop(p, x, m, i, ans) ==
    IF i = 0 THEN ans ELSE EvalLoop(p, x, m, i - 1, (ans * x + p[i]) % m)

Eval(p, x, m) == EvalLoop(p, x, m, Len(p) - 1, p[Len(p)])

(***************************************************************************)
(* schoof.go: the endomorphism ring End(E[ell]) and the division           *)
(* polynomials.  A curve is the record [P, A, B, Gx, Gy, N, BitSize].      *)
(***************************************************************************)

ErrZeroDivision == "divided by zero"
ErrNoCharacterPoly == "frobenius satisfies no character poly"

\* (*Curve).poly: f(x) = x^3 + Ax + B
CurvePoly(c) == <<c.B, c.A, 0, 1>>

QringPoly(qr, p) == Div(p, qr.h, qr.q)[2]

NewEnd(qr, ex, ey) == [x |-> QringPoly(qr, ex), y |-> QringPoly(qr, ey)]

Eq(pe, qe) == Cmp(pe.x, qe.x) = 0 /\ Cmp(pe.y, qe.y) = 0

\* The (endomorphism, error) pair an operation returns, with the polynomial
\* it stores in the package variable DivPolyFactor when it fails.
EndoOk(e) == [end |-> e, err |-> Nil, factor |-> NilPoly]
EndoFail(de) == [end |-> NilEndo, err |-> ErrZeroDivision, factor |-> de]

\* The end of Add and Double: the point on the line of slope m through
\* (a1, b1) whose abscissa is a3.
EndoThird(qr, a1, b1, m, a3) ==
    EndoOk(NewEnd(qr, a3, Sub(QringPoly(qr, Mul(m, Sub(a1, a3, qr.q), qr.q)), b1, qr.q)))

\* Double once the slope m is known.
EndoTangent(qr, pe, f, m) ==
    EndoThird(qr, pe.x, pe.y, m,
              Sub(QringPoly(qr, Mul(f, Mul(m, m, qr.q), qr.q)),
                  MulInt(pe.x, 2, qr.q), qr.q))

\* Double from the numerator nu and the denominator de of the slope, inv
\* being de.ModInverse(h, q).
EndoDoubleSlope(qr, pe, f, nu, de, inv) ==
    IF inv = NilPoly THEN EndoFail(de)
    ELSE EndoTangent(qr, pe, f, QringPoly(qr, Mul(nu, inv, qr.q)))

EndoDoubleInvert(qr, pe, f, nu, de) ==
    EndoDoubleSlope(qr, pe, f, nu, de, ModInverse(de, qr.h, qr.q))

\* m of Double before the division: 3 * a1^2 with A added to m[0].
EndoDoubleNumerator(m0, A, q) == [m0 EXCEPT ![1] = (m0[1] + A) % q]

EndoDouble(qr, pe, A, f) ==
    IF pe = NilEndo THEN EndoOk(NilEndo)
    ELSE EndoDoubleInvert(qr, pe, f,
            EndoDoubleNumerator(MulInt(QringPoly(qr, Mul(pe.x, pe.x, qr.q)), 3, qr.q),
                                A, qr.q),
            MulInt(QringPoly(qr, Mul(pe.y, f, qr.q)), 2, qr.q))

\* Add once the slope m is known.
EndoChord(qr, pe, qe, f, m) ==
    EndoThird(qr, pe.x, pe.y, m,
              Sub(QringPoly(qr, Mul(f, QringPoly(qr, Mul(m, m, qr.q)), qr.q)),
                  Add(pe.x, qe.x, qr.q), qr.q))

\* Add from b = b2 - b1 and a = a2 - a1, inv being a.ModInverse(h, q).
EndoAddSlope(qr, pe, qe, f, b, a, inv) ==
    IF inv = NilPoly THEN EndoFail(a)
    ELSE EndoChord(qr, pe, qe, f, QringPoly(qr, Mul(b, inv, qr.q)))

EndoAddInvert(qr, pe, qe, f, b, a) ==
    EndoAddSlope(qr, pe, qe, f, b, a, ModInverse(a, qr.h, qr.q))

EndoAdd(qr, pe, qe, A, f) ==
    IF pe = NilEndo THEN EndoOk(qe)
    ELSE IF qe = NilEndo THEN EndoOk(pe)
    ELSE IF Cmp(pe.x, qe.x) = 0
      THEN (IF Cmp(pe.y, qe.y) = 0 THEN EndoDouble(qr, pe, A, f) ELSE EndoOk(NilEndo))
      ELSE EndoAddInvert(qr, pe, qe, f, Sub(qe.y, pe.y, qr.q), Sub(qe.x, pe.x, qr.q))

EndoNeg(qr, pe) == IF pe = NilEndo THEN NilEndo ELSE NewEnd(qr, pe.x, PolyNeg(pe.y))

\* The bit loop of ScalarMul from bit i on: double, then add pe on a 1 bit;
\* the first error ends it.
RECURSIVE ScalarMulBits(_, _, _, _, _, _, _)
ScalarMulAdded(qr, s, pe, bits, i, A, f) ==
    IF s.err # Nil THEN s ELSE ScalarMulBits(qr, s.end, pe, bits, i + 1, A, f)

ScalarMulDoubled(qr, d, pe, bits, i, A, f) ==
    IF d.err # Nil THEN d
    ELSE IF bits[i] = 1
      THEN ScalarMulAdded(qr, EndoAdd(qr, d.end, pe, A, f), pe, bits, i, A, f)
      ELSE ScalarMulBits(qr, d.end, pe, bits, i + 1, A, f)

ScalarMulBits(qr, re, pe, bits, i, A, f) ==
    IF i > Len(bits) THEN EndoOk(re)
    ELSE ScalarMulDoubled(qr, EndoDouble(qr, re, A, f), pe, bits, i, A, f)

\* The index of the first 1 bit of a non-empty bit sequence.
RECURSIVE FirstOne(_, _)
FirstOne(bits, i) == IF bits[i] = 1 THEN i ELSE FirstOne(bits, i + 1)

\* ScalarMul for a non-nil n: the bits up to and including the most
\* significant 1 are skipped; n = 0 has no bytes and re is returned as it is.
ScalarMulFrom(qr, pe, bits, A, f) ==
    IF Len(bits) = 0 THEN EndoOk(NewEnd(qr, pe.x, pe.y))
    ELSE ScalarMulBits(qr, NewEnd(qr, pe.x, pe.y), pe, bits, FirstOne(bits, 1) + 1, A, f)

ScalarMul(qr, pe, n, A, f) == ScalarMulFrom(qr, pe, ByteBits(n), A, f)

\* One round of the bit loop of Exp(qr, p, e).
QringExpStep(qr, sq, p, bit) ==
    IF bit = 1 THEN QringPoly(qr, Mul(sq, p, qr.q)) ELSE sq

RECURSIVE QringExpBits(_, _, _, _, _)
QringExpBits(qr, r, p, bits, i) ==
    IF Evaluated(r) /\ i > Len(bits) THEN r
    ELSE QringExpBits(qr, QringExpStep(qr, QringPoly(qr, Mul(r, r, qr.q)), p, bits[i]),
                      p, bits, i + 1)

\* Exp(qr, p, e): p^e in the quotient ring
QringExp(qr, p, e) == QringExpBits(qr, <<1>>, p, ByteBits(e), 1)

\* Square: the two exponentiations run in goroutines of their own and are
\* joined before the endomorphism is built; they share nothing.
Square(qr, f) ==
    NewEnd(qr, QringExp(qr, <<0, 1>>, qr.q * qr.q),
               QringExp(qr, f, (qr.q * qr.q) \div 2))

\* The test on gcd(x^q mod h, h), without the subtraction of x.
IrreducibleOfPower(qr) ==
    Cmp(GCD(QringExp(qr, <<0, 1>>, qr.q), qr.h, qr.q), <<1>>) = 0

Irreducible(qr) ==
    Cmp(GCD(Sub(QringExp(qr, <<0, 1>>, qr.q), <<0, 1>>, qr.q), qr.h, qr.q), <<1>>) = 0

VARIABLE
    intSize        \* the width of int in the build that runs: 32 or 64 bits

\* int arithmetic of the 32-bit build on values in [-2^31, 2^31), in halves
\* of 16 bits so that no intermediate value leaves that range: a result
\* wraps around as the machine's does.
Hi16(x) == x \div 65536

Lo16(x) == x % 65536

Int32(h, l) ==
    (IF h % 65536 >= 32768 THEN (h % 65536) - 65536 ELSE h % 65536) * 65536 + l

Sub32(u, v) ==
    Int32(Hi16(u) - Hi16(v) + (Lo16(u) - Lo16(v)) \div 65536,
          (Lo16(u) - Lo16(v)) % 65536)

\* u * y for 0 <= y < 2^13
Mul32(u, y) ==
    Int32(Hi16(u) * y + (Lo16(u) * y) \div 65536, (Lo16(u) * y) % 65536)

\* The int arguments of NewPolyFromInt for psi_3 and psi_4 in the 32-bit
\* build, for 0 <= a, b < 2^13.
Psi3Int32(a, b) == <<Sub32(0, a * a), 12 * b, 6 * a, 0, 3>>

Psi4Int32(a, b) ==
    <<Sub32(Mul32(Mul32(-64, b), b), Mul32(Mul32(8 * a, a), a)),
      Mul32(-32 * a, b),
      Mul32(-40 * a, a),
      160 * b,
      40 * a,
      0,
      8>>

\* The coefficient tables of psi_3 and psi_4, built with machine integers
\* and reduced mod q, as sanitize and Mul reduce them in the code.  In the
\* 64-bit build every value fits the int for the curves of this model
\* (a, b < 2^13); the products are reduced on the way to fit the checker's
\* integers.
Psi3Coefs64(a, b, q) ==
    <<(-((a * a) % q)) % q, (12 * b) % q, (6 * a) % q, 0, 3>>

Psi3Coefs(a, b, q) ==
    IF intSize = 32 THEN [i \in 1..5 |-> Psi3Int32(a, b)[i] % q]
    ELSE Psi3Coefs64(a, b, q)

Psi4Coefs64(a, b, q) ==
    <<(-((64 * ((b * b) % q)) % q) - ((8 * ((((a * a) % q) * a) % q)) % q)) % q,
      (-((32 * ((a * b) % q)) % q)) % q,
      (-((40 * ((a * a) % q)) % q)) % q,
      (160 * b) % q,
      (40 * a) % q,
      0,
      8>>

Psi4Coefs(a, b, q) ==
    IF intSize = 32 THEN [i \in 1..7 |-> Psi4Int32(a, b)[i] % q]
    ELSE Psi4Coefs64(a, b, q)

\* The recurrences of DivPoly for n > 4 from psi_{m-2} .. psi_{m+2}, m = n/2,
\* and psi_2; den is 16 f^2.
DivPolyOdd(p2m, p1m, pm, pm1, pm2, den, n, q) ==
    IF (n \div 2) % 2 = 0
      THEN Sub(DivFull(Mul(pm2, Exp(pm, 3, q), q), den, q).quo,
               Mul(p1m, Exp(pm1, 3, q), q), q)
      ELSE Sub(Mul(pm2, Exp(pm, 3, q), q),
               DivFull(Mul(p1m, Exp(pm1, 3, q), q), den, q).quo, q)

DivPolyEven(p2m, p1m, pm, pm1, pm2, psi2, q) ==
    DivFull(Mul(pm, Sub(Mul(pm2, Exp(p1m, 2, q), q),
                        Mul(p2m, Exp(pm1, 2, q), q), q), q),
            psi2, q).quo

\* DivPoly with its cache: the result is the cache after the call, which
\* holds psi_n at n.
RECURSIVE DivPolyCache(_, _, _)
DivPolyRecur(c, n, c5) ==
    c5 @@ (n :> IF n % 2 = 1
                  THEN DivPolyOdd(c5[n \div 2 - 2], c5[n \div 2 - 1], c5[n \div 2],
                                  c5[n \div 2 + 1], c5[n \div 2 + 2],
                                  Mul(Mul(CurvePoly(c), CurvePoly(c), c.P), <<16>>, c.P),
                                  n, c.P)
                  ELSE DivPolyEven(c5[n \div 2 - 2], c5[n \div 2 - 1], c5[n \div 2],
                                   c5[n \div 2 + 1], c5[n \div 2 + 2], c5[2], c.P))

DivPolyCache(c, n, dpCache) ==
    IF n \in DOMAIN dpCache THEN dpCache
    ELSE IF n = 0 THEN dpCache @@ (n :> <<0>>)
    ELSE IF n = 1 THEN dpCache @@ (n :> <<1>>)
    ELSE IF n = 2 THEN dpCache @@ (n :> Mul(CurvePoly(c), <<4>>, c.P))
    ELSE IF n = 3 THEN dpCache @@ (n :> sanitize(Psi3Coefs(c.A, c.B, c.P), c.P))
    ELSE IF n = 4 THEN dpCache @@ (n :> Mul(Psi4Coefs(c.A, c.B, c.P), CurvePoly(c), c.P))
    ELSE DivPolyRecur(c, n,
           DivPolyCache(c, n \div 2 + 2,
             DivPolyCache(c, n \div 2 + 1,
               DivPolyCache(c, n \div 2,
                 DivPolyCache(c, n \div 2 - 1,
                   DivPolyCache(c, n \div 2 - 2, dpCache))))))

DivPoly(c, n) == DivPolyCache(c, n, << >>)[n]

\* The search of TraceMod for the trace among t = 2 .. ell-2, with P = t*pi.
\* kind "none": the loop ran out with err = nil, so the enclosing for loop
\* starts the same computation again; kind "panic": Add returned the null
\* endomorphism and Eq dereferences it.
RECURSIVE TraceSearch(_, _, _, _, _, _, _, _)
TraceSearchAdded(qr, r, pi, S, t, ell, A, f) ==
    IF r.err # Nil THEN [kind |-> "err", tr |-> 0, factor |-> r.factor]
    ELSE IF r.end = NilEndo THEN [kind |-> "panic", tr |-> 0, factor |-> NilPoly]
    ELSE IF Eq(r.end, S) THEN [kind |-> "trace", tr |-> t, factor |-> NilPoly]
    ELSE TraceSearch(qr, r.end, pi, S, t + 1, ell, A, f)

\* The search with its last candidate, t = ell - 2, left out.
TraceSearchShort(qr, P, pi, S, t, ell, A, f) ==
    IF ~(t < ell - 2) THEN [kind |-> "none", tr |-> 0, factor |-> NilPoly]
    ELSE TraceSearchAdded(qr, EndoAdd(qr, P, pi, A, f), pi, S, t, ell, A, f)

TraceSearch(qr, P, pi, S, t, ell, A, f) ==
    IF ~(t < ell - 1) THEN [kind |-> "none", tr |-> 0, factor |-> NilPoly]
    ELSE TraceSearchAdded(qr, EndoAdd(qr, P, pi, A, f), pi, S, t, ell, A, f)

\* One pass of the for loop of TraceMod from S = pi^2 + (q mod ell) on.
TraceFromSum(qr, pi, S, ell, A, f) ==
    IF S.err # Nil THEN [kind |-> "err", tr |-> 0, factor |-> S.factor]
    ELSE IF S.end = NilEndo THEN [kind |-> "trace", tr |-> 0, factor |-> NilPoly]
    ELSE IF Eq(S.end, pi) THEN [kind |-> "trace", tr |-> 1, factor |-> NilPoly]
    ELSE IF Eq(EndoNeg(qr, S.end), pi)
           THEN [kind |-> "trace", tr |-> -1, factor |-> NilPoly]
    ELSE TraceSearch(qr, NewEnd(qr, pi.x, pi.y), pi, S.end, 2, ell, A, f)

\* ... from Q = (q mod ell) * id on.
TraceFromScalar(qr, pi, pi2, Q, ell, A, f) ==
    IF Q.err # Nil THEN [kind |-> "err", tr |-> 0, factor |-> Q.factor]
    ELSE TraceFromSum(qr, pi, EndoAdd(qr, pi2, Q.end, A, f), ell, A, f)

\* ... with the ring qr.
TraceInRing(qr, q, ell, A, f) ==
    TraceFromScalar(qr,
        NewEnd(qr, QringExp(qr, <<0, 1>>, q), QringExp(qr, f, q \div 2)),
        Square(qr, f),
        ScalarMul(qr, NewEnd(qr, <<0, 1>>, <<1>>), q % ell, A, f),
        ell, A, f)

\* One pass of the for loop of TraceMod (odd ell) with the modulus h.
TraceAttempt(c, ell, h) == TraceInRing([h |-> h, q |-> c.P], c.P, ell, c.A, CurvePoly(c))

\* The worker for ell = 2: trace 1 when f is irreducible, else 0.
TraceModTwo(c) == IF Irreducible([h |-> CurvePoly(c), q |-> c.P]) THEN 1 ELSE 0

\* The modulus a worker starts with: the monic ell-th division polynomial.
TraceModStart(c, ell) == Monic(DivPoly(c, ell), c.P)

(***************************************************************************)
(* Number-theoretic helpers of the Schoof driver.                          *)
(***************************************************************************)

\* big.Int.ProbablyPrime(20): exact for the numbers of this model.
ProbablyPrime(n) == n > 1 /\ \A d \in 2..(n - 1) : d * d > n \/ n % d # 0

\* The loop of nextPrime: p += 2 until p is prime.
RECURSIVE NextPrimeLoop(_)
NextPrimeLoop(p) == IF ProbablyPrime(p + 2) THEN p + 2 ELSE NextPrimeLoop(p + 2)

NextPrime(n) ==
    IF n <= 1 THEN 2
    ELSE IF n = 2 THEN 3
    ELSE IF n % 2 = 0 /\ ProbablyPrime(n + 1) THEN n + 1
    ELSE NextPrimeLoop(IF n % 2 = 0 THEN n + 1 ELSE n)

\* big.Int.Sqrt: the floor of the square root.
Sqrt(n) == CHOOSE r \in 0..n : r * r <= n /\ (r + 1) * (r + 1) > n

RECURSIVE Product(_)
Product(n) == IF Len(n) = 0 THEN 1 ELSE Head(n) * Product(Tail(n))

\* The sum c of crt before the final Mod: a[i] * s * q with q = p / n[i] and
\* s the cofactor of q in the Bezout identity for gcd(n[i], q).  The cofactor
\* is determined mod n[i], so the sum is determined mod p; the model takes the
\* cofactor in [0, n[i]).
RECURSIVE CRTSum(_, _, _, _)
CRTSum(a, n, p, i) ==
    IF i > Len(n) THEN 0
    ELSE LET q == p \div n[i]
             s == IntModInverse(q, n[i])
         IN a[i] * s.v * q + CRTSum(a, n, p, i + 1)

\* crt: ok = FALSE is the nil it returns when some gcd is not 1.
CRT(a, n) ==
    LET p == Product(n)
    IN IF \E i \in 1..Len(n) : IntGCD(n[i], p \div n[i]) # 1
         THEN [ok |-> FALSE, v |-> 0]
         ELSE [ok |-> TRUE, v |-> CRTSum(a, n, p, 1) % p]

(***************************************************************************)
(* curve.go: the group law.  An affine point is <<x, y>>, a Jacobian point *)
(* <<x, y, z>>; (0, 0) is the point at infinity.                           *)
(***************************************************************************)

\* The value of a call that ends in panic("ecc: attempted operation on
\* invalid Point"): no point of any curve.
PanicPoint == <<-1, -1>>

evaluatePolynomial(c, x) == ((((x * x) % c.P) * x) + x * c.A + c.B) % c.P

\* IsOnCurve with the coordinates reduced mod P in place of the range check.
IsOnCurveReduced(c, x, y) == evaluatePolynomial(c, x % c.P) = (y * y) % c.P

IsOnCurve(c, x, y) ==
    IF x < 0 \/ x >= c.P \/ y < 0 \/ y >= c.P THEN FALSE
    ELSE evaluatePolynomial(c, x) = (y * y) % c.P

\* TRUE when panicIfNotOnCurve returns, FALSE when it panics.
panicIfNotOnCurve(c, x, y) == (x = 0 /\ y = 0) \/ IsOnCurve(c, x, y)

CurveNeg(c, x, y) ==
    IF ~panicIfNotOnCurve(c, x, y) THEN PanicPoint
    ELSE <<x, (-y) % c.P>>

\* zForAffine with z = 1 for every point.
zForAffineOne(x, y) == 1

zForAffine(x, y) == IF x # 0 \/ y # 0 THEN 1 ELSE 0

\* xOut and yOut of affineFromJacobian from zinv.
affineFromInverse(c, x, y, zinv) ==
    <<(x * ((zinv * zinv) % c.P)) % c.P,
      (y * ((((zinv * zinv) % c.P) * zinv) % c.P)) % c.P>>

\* zinv is nil when z has no inverse mod P, and Mul then dereferences it.
affineFromZinv(c, x, y, zinv) ==
    IF ~zinv.ok THEN PanicPoint ELSE affineFromInverse(c, x, y, zinv.v)

affineFromJacobian(c, j) ==
    IF j[3] = 0 THEN <<0, 0>>
    ELSE affineFromZinv(c, j[1], j[2], IntModInverse(j[3], c.P))

\* x3, y3, z3 of doubleJacobian from s, m and t.
doubleJacobianOut(c, y, z, yy, yyyy, zz, s, m, t) ==
    <<t,
      (m * ((s - t) % c.P) - ((8 * yyyy) % c.P)) % c.P,
      ((y + z) * (y + z) - yy - zz) % c.P>>

\* t of doubleJacobian from s and m.
doubleJacobianT(c, y, z, yy, yyyy, zz, s, m) ==
    doubleJacobianOut(c, y, z, yy, yyyy, zz, s, m, (m * m - 2 * s) % c.P)

\* s and m of doubleJacobian from the squares.
doubleJacobianSM(c, x, y, z, xx, yy, yyyy, zz, zzzz) ==
    doubleJacobianT(c, y, z, yy, yyyy, zz,
                    (2 * (((x + yy) * (x + yy) - xx - yyyy) % c.P)) % c.P,
                    (2 * xx + xx + ((c.A * zzzz) % c.P)) % c.P)

\* yyyy and zzzz of doubleJacobian from xx, yy and zz.
doubleJacobianSquares(c, x, y, z, xx, yy, zz) ==
    doubleJacobianSM(c, x, y, z, xx, yy, (yy * yy) % c.P, zz, (zz * zz) % c.P)

doubleJacobian(c, x, y, z) ==
    doubleJacobianSquares(c, x, y, z, (x * x) % c.P, (y * y) % c.P, (z * z) % c.P)

\* x3, y3, z3 of addJacobian from the doubled r, j and v.
addJacobianOut(c, z1, z2, z1z1, z2z2, h, r, j, v, s1, x3) ==
    <<x3,
      (r * ((v - x3) % c.P) - 2 * ((s1 * j) % c.P)) % c.P,
      ((((z1 + z2) * (z1 + z2) - z1z1 - z2z2) % c.P) * h) % c.P>>

addJacobianX(c, z1, z2, z1z1, z2z2, h, r, j, v, s1) ==
    addJacobianOut(c, z1, z2, z1z1, z2z2, h, r, j, v, s1,
                   (r * r - j - v - v) % c.P)

\* The end of addJacobian, from h, i and r: the doubling when the two points
\* are equal.
addJacobianR(c, x1, y1, z1, z2, z1z1, z2z2, u1, h, i, s1, r) ==
    IF h = 0 /\ r = 0 THEN doubleJacobian(c, x1, y1, z1)
    ELSE addJacobianX(c, z1, z2, z1z1, z2z2, h, 2 * r, (h * i) % c.P,
                      (u1 * i) % c.P, s1)

\* i of addJacobian from h.
addJacobianI(c, x1, y1, z1, z2, z1z1, z2z2, u1, h, s1, r) ==
    addJacobianR(c, x1, y1, z1, z2, z1z1, z2z2, u1, h,
                 ((2 * h) * (2 * h)) % c.P, s1, r)

\* h and r of addJacobian from u1, u2, s1, s2.
addJacobianH(c, x1, y1, z1, z2, z1z1, z2z2, u1, u2, s1, s2) ==
    addJacobianI(c, x1, y1, z1, z2, z1z1, z2z2, u1,
                 IF u2 - u1 < 0 THEN u2 - u1 + c.P ELSE u2 - u1,
                 s1,
                 IF s2 - s1 < 0 THEN s2 - s1 + c.P ELSE s2 - s1)

\* u1, u2, s1, s2 of addJacobian from z1z1 and z2z2.
addJacobianU(c, x1, y1, z1, x2, y2, z2, z1z1, z2z2) ==
    addJacobianH(c, x1, y1, z1, z2, z1z1, z2z2,
                 (x1 * z2z2) % c.P, (x2 * z1z1) % c.P,
                 (((y1 * z2) % c.P) * z2z2) % c.P,
                 (((y2 * z1) % c.P) * z1z1) % c.P)

addJacobian(c, x1, y1, z1, x2, y2, z2) ==
    IF z1 = 0 THEN <<x2, y2, z2>>
    ELSE IF z2 = 0 THEN <<x1, y1, z1>>
    ELSE addJacobianU(c, x1, y1, z1, x2, y2, z2, (z1 * z1) % c.P, (z2 * z2) % c.P)

CurveAdd(c, x1, y1, x2, y2) ==
    IF ~panicIfNotOnCurve(c, x1, y1) \/ ~panicIfNotOnCurve(c, x2, y2)
      THEN PanicPoint
      ELSE affineFromJacobian(c, addJacobian(c, x1, y1, zForAffine(x1, y1),
                                                x2, y2, zForAffine(x2, y2)))

CurveDouble(c, x1, y1) ==
    IF ~panicIfNotOnCurve(c, x1, y1) THEN PanicPoint
    ELSE affineFromJacobian(c, doubleJacobian(c, x1, y1, zForAffine(x1, y1)))

\* ScalarMultBit with the addition made for every bit.
ScalarMultBitAlways(c, Bx, By, bit, d) ==
    addJacobian(c, Bx, By, 1, d[1], d[2], d[3])

\* One round of the bit loop of ScalarMult on the Jacobian point d that
\* doubleJacobian returned.
ScalarMultBit(c, Bx, By, bit, d) ==
    IF bit = 1 THEN addJacobian(c, Bx, By, 1, d[1], d[2], d[3]) ELSE d

\* The loops of ScalarMult over the bits of k.Bytes(), from bit n on.
RECURSIVE ScalarMultLoop(_, _, _, _, _, _)
ScalarMultLoop(c, Bx, By, bits, n, j) ==
    IF Evaluated(j) /\ n > Len(bits) THEN j
    ELSE ScalarMultLoop(c, Bx, By, bits, n + 1,
             ScalarMultBit(c, Bx, By, bits[n], doubleJacobian(c, j[1], j[2], j[3])))

ScalarMult(c, Bx, By, k) ==
    IF ~panicIfNotOnCurve(c, Bx, By) THEN PanicPoint
    ELSE affineFromJacobian(c, ScalarMultLoop(c, Bx, By, ByteBits(Abs(k)), 1, <<0, 0, 0>>))

ScalarBaseMult(c, k) == ScalarMult(c, c.Gx, c.Gy, k)

\* Add of CombinedMult on the two products.
CombinedMultAdd(c, p1, p2) == CurveAdd(c, p1[1], p1[2], p2[1], p2[2])

CombinedMult(c, xQ, yQ, m, n) ==
    CombinedMultAdd(c, ScalarBaseMult(c, m), ScalarMult(c, xQ, yQ, n))

\* 256^n
RECURSIVE Pow256(_)
Pow256(n) == IF n = 0 THEN 1 ELSE 256 * Pow256(n - 1)

\* The value of a call that ends in a panic of FillBytes (the buffer is too
\* small for the value): no encoding starts with this byte.
PanicBytes == <<-1>>

\* big.Int.FillBytes into a buffer of n bytes: the absolute value, big-endian,
\* zero-extended.
FillBytes(x, n) ==
    IF Abs(x) >= Pow256(n) THEN PanicBytes
    ELSE MakePoly([i \in 1..n |-> (Abs(x) \div Pow256(n - i)) % 256])

\* Marshal from the two filled halves.
MarshalJoin(bx, by) ==
    IF bx = PanicBytes \/ by = PanicBytes THEN PanicBytes ELSE <<4>> \o bx \o by

Marshal(c, x, y) ==
    MarshalJoin(FillBytes(x, (c.BitSize + 7) \div 8), FillBytes(y, (c.BitSize + 7) \div 8))

(***************************************************************************)
(* dlp.go: the ECDLP solvers.  A solver's result is [kind, v]: the value   *)
(* v, none (the nil *big.Int) or a panic.                                  *)
(***************************************************************************)

DLPValue(v) == [kind |-> "value", v |-> v]
DLPNone == [kind |-> "none", v |-> 0]
DLPPanic == [kind |-> "panic", v |-> 0]

\* The loops of Shank are computed some rounds at a time, so that the depth
\* of the computation stays near twice the square root of their length.
ShankBlock(sqrtN) == Sqrt(sqrtN) + 1

\* Rounds a..last of the first loop of Shank; r is a * (px, py), the point
\* that round a stores.  precomputed maps the Marshal bytes to the last a
\* stored for them.
RECURSIVE ShankBabyRounds(_, _, _, _, _, _, _)
ShankBabyRounds(c, px, py, last, a, r, precomputed) ==
    IF Evaluated(precomputed) /\ a > last THEN [r |-> r, precomputed |-> precomputed]
    ELSE ShankBabyRounds(c, px, py, last, a + 1, CurveAdd(c, r[1], r[2], px, py),
                         (Marshal(c, r[1], r[2]) :> a) @@ precomputed)

\* The first loop of Shank from a on, from the r and precomputed of st.
RECURSIVE ShankBaby(_, _, _, _, _, _)
ShankBaby(c, px, py, sqrtN, a, st) ==
    IF Evaluated(st) /\ a > sqrtN THEN st.precomputed
    ELSE ShankBaby(c, px, py, sqrtN, a + ShankBlock(sqrtN),
                   ShankBabyRounds(c, px, py,
                                   IF a + ShankBlock(sqrtN) - 1 > sqrtN
                                     THEN sqrtN ELSE a + ShankBlock(sqrtN) - 1,
                                   a, st.r, st.precomputed))

\* Rounds b..last of the second loop of Shank; r is (hx, hy) + b * (sx, sy).
\* The kind "more" says that the loop goes on after round last, from the
\* point v.
RECURSIVE ShankGiantRounds(_, _, _, _, _, _, _, _)
ShankGiantRounds(c, sqrtN, last, b, r, sx, sy, precomputed) ==
    IF r = PanicPoint \/ Marshal(c, r[1], r[2]) = PanicBytes THEN DLPPanic
    ELSE IF b > sqrtN THEN DLPNone
    ELSE IF Marshal(c, r[1], r[2]) \in DOMAIN precomputed
      THEN DLPValue(precomputed[Marshal(c, r[1], r[2])] + sqrtN * b)
    ELSE IF b = last THEN [kind |-> "more", v |-> CurveAdd(c, r[1], r[2], sx, sy)]
    ELSE ShankGiantRounds(c, sqrtN, last, b + 1, CurveAdd(c, r[1], r[2], sx, sy),
                          sx, sy, precomputed)

\* The second loop of Shank from b on.
RECURSIVE ShankGiant(_, _, _, _, _, _, _)
ShankGiantNext(c, sqrtN, b, sx, sy, precomputed, res) ==
    IF res.kind = "more"
      THEN ShankGiant(c, sqrtN, b + ShankBlock(sqrtN), res.v, sx, sy, precomputed)
      ELSE res

ShankGiant(c, sqrtN, b, r, sx, sy, precomputed) ==
    ShankGiantNext(c, sqrtN, b, sx, sy, precomputed,
                   ShankGiantRounds(c, sqrtN, b + ShankBlock(sqrtN) - 1, b, r, sx, sy,
                                    precomputed))

\* ShankSteps with the second loop entered at b = 1.
ShankStepsFromOne(c, hx, hy, sqrtN, s, precomputed) ==
    ShankGiant(c, sqrtN, 1, <<hx, hy>>, s[1], s[2], precomputed)

\* Shank after the first loop, from the step s = sqrtN * Neg(px, py).
ShankSteps(c, hx, hy, sqrtN, s, precomputed) ==
    ShankGiant(c, sqrtN, 0, <<hx, hy>>, s[1], s[2], precomputed)

\* ScalarMult of Shank on the negated point np.
ShankNeg(c, hx, hy, sqrtN, np, precomputed) ==
    ShankSteps(c, hx, hy, sqrtN, ScalarMult(c, np[1], np[2], sqrtN), precomputed)

\* Shank from sqrtN on.
ShankFrom(c, px, py, hx, hy, sqrtN) ==
    ShankNeg(c, hx, hy, sqrtN, CurveNeg(c, px, py),
             ShankBaby(c, px, py, sqrtN, 1,
                       [r |-> CurveAdd(c, 0, 0, px, py), precomputed |-> << >>]))

Shank(c, px, py, hx, hy) ==
    IF ~IsOnCurve(c, px, py) THEN DLPNone
    ELSE ShankFrom(c, px, py, hx, hy, Sqrt(c.N) + 1)

\* One walk step f of PollardRho on w = [x, y, a, b]: the three cases of
\* x mod 3, from the point pt that the case computes.
RhoMoved(pt, a, b) == [x |-> pt[1], y |-> pt[2], a |-> a, b |-> b]

\* f whose case 0 moves the point and leaves a as it is.
RhoFStale(c, px, py, hx, hy, w) ==
    IF w.x % 3 = 0
      THEN RhoMoved(CurveAdd(c, px, py, w.x, w.y), w.a, w.b)
    ELSE IF w.x % 3 = 1
      THEN RhoMoved(ScalarMult(c, w.x, w.y, 2), (w.a + w.a) % c.N, (w.b + w.b) % c.N)
    ELSE RhoMoved(CurveAdd(c, hx, hy, w.x, w.y), w.a, (w.b + 1) % c.N)

RhoF(c, px, py, hx, hy, w) ==
    IF w.x % 3 = 0
      THEN RhoMoved(CurveAdd(c, px, py, w.x, w.y), (w.a + 1) % c.N, w.b)
    ELSE IF w.x % 3 = 1
      THEN RhoMoved(ScalarMult(c, w.x, w.y, 2), (w.a + w.a) % c.N, (w.b + w.b) % c.N)
    ELSE RhoMoved(CurveAdd(c, hx, hy, w.x, w.y), w.a, (w.b + 1) % c.N)

\* Add of setup on v = a * (px, py) and u = b * (hx, hy).
RhoSetupAdd(c, v, u, a, b) == RhoMoved(CurveAdd(c, v[1], v[2], u[1], u[2]), a, b)

\* setup of PollardRho for the values a and b that rnd yields.
RhoSetup(c, px, py, hx, hy, a, b) ==
    RhoSetupAdd(c, ScalarMult(c, px, py, a), ScalarMult(c, hx, hy, b), a, b)

\* The candidate a1 at a collision: (a1 - a2) * (b2 - b1)^-1 mod N, where
\* ModInverse leaves b2 - b1 as it is when it has no inverse.
RhoCandidateFrom(N, da, db, inv) ==
    (da * (IF inv.ok THEN inv.v ELSE db)) % N

RhoCandidateOf(N, da, db) == RhoCandidateFrom(N, da, db, IntModInverse(db, N))

RhoCandidate(N, w1, w2) == RhoCandidateOf(N, (w1.a - w2.a) % N, (w2.b - w1.b) % N)

\* The pollardRho closure of factorize: its inner loop from c on, <<x, factor>>.
RECURSIVE FactorRhoInner(_, _, _, _, _, _)
FactorRhoInner(n, x, xStatic, c, cycleSize, factor) ==
    IF Evaluated(x) /\ (c > cycleSize \/ factor > 1) THEN <<x, factor>>
    ELSE FactorRhoInner(n, (x * x + 1) % n, xStatic, c + 1, cycleSize,
                        IntGCD(((x * x + 1) % n) - xStatic, n))

\* Its outer loop from i on; xf is <<x, factor>> with xStatic = x.  ok = FALSE
\* is the nil of round 20.
RECURSIVE FactorRhoOuter(_, _, _, _)
FactorRhoOuter(n, xf, cycleSize, i) ==
    IF xf[2] # 1 THEN [ok |-> TRUE, v |-> xf[2]]
    ELSE IF i = 20 THEN [ok |-> FALSE, v |-> 0]
    ELSE FactorRhoOuter(n, FactorRhoInner(n, xf[1], xf[1], 1, cycleSize, xf[2]),
                        cycleSize * 2, i + 1)

FactorRho(n) == FactorRhoOuter(n, <<2, 1>>, 2, 1)

\* The for loop of factorize on the factor f that pollardRho returned.
RECURSIVE FactorizeLoop(_, _, _)
FactorizeLoop(factors, nn, f) ==
    IF ~f.ok \/ f.v = nn THEN factors
    ELSE IF ProbablyPrime(nn \div f.v) THEN Append(Append(factors, f.v), nn \div f.v)
    ELSE FactorizeLoop(Append(factors, f.v), nn \div f.v, FactorRho(nn \div f.v))

\* factorize after the factors 2 have been divided out of nn.
FactorizeOdd(factors, nn) ==
    IF nn = 1 THEN factors
    ELSE IF ProbablyPrime(nn) THEN Append(factors, nn)
    ELSE FactorizeLoop(factors, nn, FactorRho(nn))

RECURSIVE FactorizeEven(_, _)
FactorizeEven(factors, nn) ==
    IF nn % 2 = 0 THEN FactorizeEven(Append(factors, 2), nn \div 2)
    ELSE FactorizeOdd(factors, nn)

factorize(n) == FactorizeEven(<< >>, n)

\* sort.SliceStable in ascending order.
RECURSIVE SortInsert(_, _)
SortInsert(s, v) ==
    IF Len(s) = 0 THEN <<v>>
    ELSE IF s[Len(s)] <= v THEN Append(s, v)
    ELSE Append(SortInsert(SubSeq(s, 1, Len(s) - 1), v), s[Len(s)])

RECURSIVE SortStable(_)
SortStable(s) ==
    IF Len(s) = 0 THEN << >>
    ELSE SortInsert(SortStable(SubSeq(s, 1, Len(s) - 1)), s[Len(s)])

\* res of PohligHellman: the product of each run of equal factors.
RECURSIVE PrimePowers(_, _, _)
PrimePowers(factors, i, res) ==
    IF i > Len(factors) THEN res
    ELSE IF i > 1 /\ factors[i] = factors[i - 1]
      THEN PrimePowers(factors, i + 1,
                       [res EXCEPT ![Len(res)] = res[Len(res)] * factors[i]])
    ELSE PrimePowers(factors, i + 1, Append(res, factors[i]))

\* PohligHellmanJoin that returns none unless res multiplies to N.
PohligHellmanJoinWhole(N, res, joined) ==
    [k |-> IF Product(res) # N \/ ~joined.ok THEN DLPNone ELSE DLPValue(joined.v),
     N |-> N]

\* The end of PohligHellman: c.N is set back and crt joins the logarithms.
PohligHellmanJoin(N, res, joined) ==
    [k |-> IF Len(res) = 0 \/ ~joined.ok THEN DLPNone ELSE DLPValue(joined.v),
     N |-> N]

\* dlp of PohligHellman on the curve cf, whose N is the factor, for the
\* points p and q that the two ScalarMult return.  dlp is c.Shank: the curves
\* of the model have BitSize <= 100.
PohligHellmanDlp(cf, p, q) == Shank(cf, p[1], p[2], q[1], q[2])

\* The last loop of PohligHellman from factor i on.  The result is [k, N]:
\* what the call returns and the c.N it leaves behind.
RECURSIVE PohligHellmanLoop(_, _, _, _, _, _, _, _)
PohligHellmanLog(c, px, py, hx, hy, res, i, dLogs, k) ==
    IF k.kind # "value" THEN [k |-> k, N |-> res[i]]
    ELSE PohligHellmanLoop(c, px, py, hx, hy, res, i + 1, Append(dLogs, k.v))

PohligHellmanLoop(c, px, py, hx, hy, res, i, dLogs) ==
    IF i > Len(res) THEN PohligHellmanJoin(c.N, res, CRT(dLogs, res))
    ELSE PohligHellmanLog(c, px, py, hx, hy, res, i, dLogs,
             PohligHellmanDlp([c EXCEPT !.N = res[i]],
                              ScalarMult(c, px, py, c.N \div res[i]),
                              ScalarMult(c, hx, hy, c.N \div res[i])))

PohligHellman(c, px, py, hx, hy) ==
    IF ~IsOnCurve(c, px, py) THEN [k |-> DLPNone, N |-> c.N]
    ELSE PohligHellmanLoop(c, px, py, hx, hy,
                           PrimePowers(SortStable(factorize(c.N)), 1, << >>),
                           1, << >>)

(***************************************************************************)
(* ECDSA: hashToInt, Sign and Verify.                                      *)
(***************************************************************************)

\* big.Int.SetBytes: the big-endian value of the bytes.
RECURSIVE SetBytes(_)
SetBytes(bytes) ==
    IF Len(bytes) = 0 THEN 0
    ELSE 256 * SetBytes(SubSeq(bytes, 1, Len(bytes) - 1)) + bytes[Len(bytes)]

RECURSIVE Pow2(_)
Pow2(n) == IF n = 0 THEN 1 ELSE 2 * Pow2(n - 1)

\* hashToInt on the hash cut to orderBytes.
hashToIntCut(hash, orderBits) ==
    IF Len(hash) * 8 - orderBits > 0
      THEN SetBytes(hash) \div Pow2(Len(hash) * 8 - orderBits)
      ELSE SetBytes(hash)

hashToIntBits(hash, orderBits) ==
    IF Len(hash) > (orderBits + 7) \div 8
      THEN hashToIntCut(SubSeq(hash, 1, (orderBits + 7) \div 8), orderBits)
      ELSE hashToIntCut(hash, orderBits)

hashToInt(c, hash) == hashToIntBits(hash, BitLen(c.N))

\* big.Int.Exp(b, e, n) for e >= 0 and n > 0.
RECURSIVE ModExp(_, _, _)
ModExpHalf(b, e, n, h) == IF e % 2 = 0 THEN (h * h) % n ELSE (((h * h) % n) * (b % n)) % n

ModExp(b, e, n) == IF e = 0 THEN 1 % n ELSE ModExpHalf(b, e, n, ModExp(b, e \div 2, n))

FermatInverse(k, N) == ModExp(k, N - 2, N)

\* s of Sign with the hash left out.
SignSNoHash(N, priv, r, z, kInv) == ((((priv % N) * r) % N) * kInv) % N

\* s of Sign.
SignS(N, priv, r, z, kInv) == ((((priv % N) * r + z) % N) * kInv) % N

\* One pass of the loop of Sign once r is reduced: ok = FALSE is a pass that
\* ends in continue or at the end of the body with s = 0.
SignPass(r, s) == [ok |-> r # 0 /\ s # 0, r |-> r, s |-> s]

SignWith(c, priv, hash, k, r) ==
    SignPass(r, SignS(c.N, priv, r, hashToInt(c, hash), FermatInverse(k, c.N)))

\* One pass of the loop of Sign for the key k that GenerateKey returns.
Sign(c, priv, hash, k) ==
    SignWith(c, priv, hash, k, ScalarBaseMult(c, k)[1] % c.N)

\* The end of Verify with y compared in place of x.
VerifyPointY(c, pt, r) == pt # <<0, 0>> /\ pt[2] % c.N = r

\* The end of Verify on the point that CombinedMult returned.
VerifyPoint(c, pt, r) == pt # <<0, 0>> /\ pt[1] % c.N = r

\* Verify from u1 = hashToInt(hash) and u2 = FermatInverse(s, N).
VerifyFrom(c, hx, hy, r, u1, u2) ==
    VerifyPoint(c, CombinedMult(c, hx, hy, (u1 * u2) % c.N, (u2 * r) % c.N), r)

\* Verify for a public key that CombinedMult accepts.
Verify(c, hx, hy, hash, r, s) ==
    IF r <= 0 \/ s <= 0 THEN FALSE
    ELSE IF r >= c.N \/ s >= c.N THEN FALSE
    ELSE VerifyFrom(c, hx, hy, r, hashToInt(c, hash), FermatInverse(s, c.N))

(***************************************************************************)
(* The decoders of curve.go, and big.Int.ModSqrt, which they call.  A      *)
(* decoder returns x and y, each of them nil or a number.                  *)
(***************************************************************************)

Decoded(x, y) == [xNil |-> FALSE, yNil |-> FALSE, x |-> x, y |-> y]
NilNil == [xNil |-> TRUE, yNil |-> TRUE, x |-> 0, y |-> 0]

\* big.Jacobi(x, p) for an odd prime p, where it is the Legendre symbol:
\* x^((p-1)/2) mod p is 0, 1 or p - 1.
JacobiOf(e, p) == IF e = p - 1 THEN -1 ELSE e

Jacobi(x, p) == JacobiOf(ModExp(x % p, (p - 1) \div 2, p), p)

\* modSqrt3Mod4Prime: x^((p+1)/4) mod p.
modSqrt3Mod4Prime(x, p) == ModExp(x, (p + 1) \div 4, p)

\* modSqrt5Mod8Prime: alpha = (2x)^(p>>3), beta = alpha^2 * 2x - 1, and
\* the root is x * alpha * beta.
modSqrt5Mod8Beta(x, p, tx, alpha) ==
    ((((((((alpha * alpha) % p) * tx) % p) - 1) * x) % p) * alpha) % p

modSqrt5Mod8Prime(x, p) == modSqrt5Mod8Beta(x, p, 2 * x, ModExp(2 * x, p \div 8, p))

\* modSqrtTonelliShanks: the least n >= from with Jacobi(n, p) = -1.
RECURSIVE TonelliNonResidue(_, _)
TonelliNonResidue(from, p) ==
    IF Jacobi(from, p) = -1 THEN from ELSE TonelliNonResidue(from + 1, p)

\* The number of trailing zero bits of s > 0.
RECURSIVE trailingZeroBits(_)
trailingZeroBits(s) == IF s % 2 = 1 THEN 0 ELSE 1 + trailingZeroBits(s \div 2)

\* The least m with t^(2^m) = 1 mod p.
RECURSIVE TonelliOrder(_, _)
TonelliOrder(t, p) == IF t = 1 THEN 0 ELSE 1 + TonelliOrder((t * t) % p, p)

RECURSIVE TonelliLoop(_, _, _, _, _)
TonelliRound(y, b, g, r, p, tm, t) ==
    TonelliLoop((y * t) % p, (b * ((t * t) % p)) % p, (t * t) % p, tm, p)

TonelliLoop(y, b, g, r, p) ==
    IF TonelliOrder(b, p) = 0 THEN y
    ELSE TonelliRound(y, b, g, r, p, TonelliOrder(b, p),
                      ModExp(g, Pow2(r - TonelliOrder(b, p) - 1), p))

TonelliFrom(x, p, s, e, n) ==
    TonelliLoop(ModExp(x, (s + 1) \div 2, p), ModExp(x, s, p), ModExp(n, s, p), e, p)

modSqrtTonelliShanks(x, p) ==
    TonelliFrom(x, p, (p - 1) \div Pow2(trailingZeroBits(p - 1)),
                trailingZeroBits(p - 1), TonelliNonResidue(2, p))

\* ModSqrt of a residue x in [0, p).
ModSqrtOf(x, p) ==
    IF p % 4 = 3 THEN modSqrt3Mod4Prime(x, p)
    ELSE IF p % 8 = 5 THEN modSqrt5Mod8Prime(x, p)
    ELSE modSqrtTonelliShanks(x, p)

\* big.Int.ModSqrt(x, p) for an odd prime p: ok = FALSE is the nil result.
ModSqrt(x, p) ==
    IF Jacobi(x, p) = -1 THEN [ok |-> FALSE, v |-> 0]
    ELSE IF Jacobi(x, p) = 0 THEN [ok |-> TRUE, v |-> 0]
    ELSE [ok |-> TRUE, v |-> ModSqrtOf(x % p, p)]

\* MarshalCompressed from the filled x.
MarshalCompressedJoin(first, bx) ==
    IF bx = PanicBytes THEN PanicBytes ELSE <<first>> \o bx

\* byte(y.Bit(0)) | 2 is 2 + the low bit of |y|.
MarshalCompressed(c, x, y) ==
    MarshalCompressedJoin(2 + (Abs(y) % 2), FillBytes(x, (c.BitSize + 7) \div 8))

\* Unmarshal from the two numbers of the data.
UnmarshalPoint(c, x, y) ==
    IF x >= c.P \/ y >= c.P THEN NilNil
    ELSE IF ~IsOnCurve(c, x, y) THEN NilNil
    ELSE Decoded(x, y)

UnmarshalOf(c, data, byteLen) ==
    IF Len(data) # 1 + 2 * byteLen THEN NilNil
    ELSE IF data[1] # 4 THEN NilNil
    ELSE UnmarshalPoint(c, SetBytes(SubSeq(data, 2, 1 + byteLen)),
                        SetBytes(SubSeq(data, 2 + byteLen, Len(data))))

Unmarshal(c, data) == UnmarshalOf(c, data, (c.BitSize + 7) \div 8)

\* The root that UnmarshalCompressed keeps, with the negation left out.
UnmarshalCompressedRootAsIs(c, y, bit) == y

\* The root that UnmarshalCompressed keeps: y, or p - y when the low bit of
\* y is not the one of the first byte.
UnmarshalCompressedRoot(c, y, bit) == IF y % 2 # bit THEN (-y) % c.P ELSE y

UnmarshalCompressedCheck(c, x, y) ==
    IF ~IsOnCurve(c, x, y) THEN NilNil ELSE Decoded(x, y)

UnmarshalCompressedSqrt(c, x, bit, y) ==
    IF ~y.ok THEN NilNil
    ELSE UnmarshalCompressedCheck(c, x, UnmarshalCompressedRoot(c, y.v, bit))

UnmarshalCompressedX(c, x, bit) ==
    IF x >= c.P THEN NilNil
    ELSE UnmarshalCompressedSqrt(c, x, bit, ModSqrt(evaluatePolynomial(c, x), c.P))

UnmarshalCompressedOf(c, data, byteLen) ==
    IF Len(data) # 1 + byteLen THEN NilNil
    ELSE IF data[1] # 2 /\ data[1] # 3 THEN NilNil
    ELSE UnmarshalCompressedX(c, SetBytes(SubSeq(data, 2, Len(data))), data[1] % 2)

UnmarshalCompressed(c, data) == UnmarshalCompressedOf(c, data, (c.BitSize + 7) \div 8)

(***************************************************************************)
(* Schoof: the driver, one TraceMod worker per prime, one multiplex        *)
(* goroutine per worker, the goroutine that closes the multiplexed stream, *)
(* and the toTrace goroutine.  All channels are unbuffered: a send and its *)
(* receive are one step.                                                   *)
(***************************************************************************)

\* The curves of TestSchoof that the model runs, with the order each expects.
SchoofCases ==
    << [P |-> 97, A |-> 46, B |-> 74, N |-> 80],
       [P |-> 19, A |-> 2, B |-> 1, N |-> 27] >>

\* The primes the driver's first loop collects: l = 2, 3, 5, ... while the
\* product M of the primes so far is at most fsq = 4 * floor(sqrt(q)).
RECURSIVE SchoofPrimes(_, _, _)
SchoofPrimes(l, M, fsq) ==
    IF M <= fsq THEN <<l>> \o SchoofPrimes(NextPrime(l), M * l, fsq) ELSE << >>

SchoofEll(c) == SchoofPrimes(2, 1, 4 * Sqrt(c.P))

\* The passes of a worker's for loop from modulus h on, as the sequence of
\* (curve, ell, h, outcome): each ErrZeroDivision is followed by the pass with
\* the gcd of h and the factor the failed operation stored.
RECURSIVE AttemptChain(_, _, _)
AttemptChain(c, l, h) ==
    LET a  == TraceAttempt(c, l, h)
        e  == [P |-> c.P, A |-> c.A, B |-> c.B, ell |-> l, h |-> h, res |-> a]
        nh == GCD(h, a.factor, c.P)
    IN IF a.kind = "err" /\ nh # h THEN <<e>> \o AttemptChain(c, l, nh) ELSE <<e>>

RECURSIVE WorkerChains(_, _, _)
WorkerChains(c, ells, i) ==
    IF i > Len(ells) THEN << >>
    ELSE AttemptChain(c, ells[i], TraceModStart(c, ells[i]))
           \o WorkerChains(c, ells, i + 1)

\* TraceAttempt tabulated on the passes the odd-prime workers of Schoof on c
\* make when no worker disturbs another.
FixtureAttempts(c) == WorkerChains(c, Tail(SchoofEll(c)), 1)

\* One pass of a worker's for loop: TraceAttempt(c, l, h), read from the table
\* where the table has it.
TraceModPass(table, c, l, h) ==
    LET hit == {k \in 1..Len(table) :
                   /\ table[k].P = c.P /\ table[k].A = c.A /\ table[k].B = c.B
                   /\ table[k].ell = l /\ table[k].h = h}
    IN IF hit # {} THEN table[CHOOSE k \in hit : TRUE].res
       ELSE TraceAttempt(c, l, h)

VARIABLES
    sc,            \* Schoof: the curve c
    ell,           \* Schoof: the primes, ell[i] the prime of worker i
    tr,            \* Schoof: the traces appended so far
    dpc,           \* Schoof: where the driver is
    ret,           \* Schoof: what it returned
    done,          \* the done channel is closed
    wpc,           \* TraceMod goroutine i: where it is
    qrh,           \* TraceMod goroutine i: qr.h
    wtrace,        \* TraceMod goroutine i: the Trace it sends
    DivPolyFactor, \* the package variable
    mpc,           \* multiplex goroutine i: where it is
    ms,            \* multiplex goroutine i: the value s it forwards
    streamClosed,  \* multiplexedStream is closed
    tpc,           \* toTrace goroutine: where it is
    tv,            \* toTrace goroutine: the value v it forwards
    chClosed,      \* the channel of toTrace is closed
    passes         \* TraceAttempt, tabulated for the workers of sc (never changes)

schoofVars == <<sc, ell, tr, dpc, ret, done, wpc, qrh, wtrace, DivPolyFactor,
                mpc, ms, streamClosed, tpc, tv, chClosed, passes>>

NoTrace == [tr |-> 0, err |-> Nil]

Workers == 1..Len(ell)

\* Schoof is not called: the state of the specifications that run other
\* operations of the package.
SchoofIdle ==
    /\ sc = [P |-> 0, A |-> 0, B |-> 0, N |-> 0]
    /\ ell = << >>
    /\ tr = << >>
    /\ dpc = "idle"
    /\ ret = [order |-> 0, err |-> Nil]
    /\ done = FALSE
    /\ wpc = << >>
    /\ qrh = << >>
    /\ wtrace = << >>
    /\ DivPolyFactor = NilPoly
    /\ mpc = << >>
    /\ ms = << >>
    /\ streamClosed = FALSE
    /\ tpc = "idle"
    /\ tv = NoTrace
    /\ chClosed = FALSE
    /\ passes = << >>

VARIABLES
    dlpCurve,      \* TestECDLP: the curve (PohligHellman writes its N)
    dlpSolver,     \* the solver that the run calls
    dlpM,          \* the scalar m of the loop
    dlpH,          \* (hx, hy) = m * G
    dlpK,          \* what the solver returned
    dlpPc,         \* "start", "call", "round", "walk" or "done"
    rhoI,          \* PollardRho: the round i
    rhoJ,          \* the step j of the round
    rhoW1,         \* the walker (x1, y1, a1, b1)
    rhoW2          \* the walker (x2, y2, a2, b2)

dlpVars == <<dlpCurve, dlpSolver, dlpM, dlpH, dlpK, dlpPc, rhoI, rhoJ, rhoW1, rhoW2>>

NoCurve == [P |-> 0, A |-> 0, B |-> 0, Gx |-> 0, Gy |-> 0, N |-> 0, BitSize |-> 0]

NoWalker == [x |-> 0, y |-> 0, a |-> 0, b |-> 0]

\* No solver is called.
DLPIdle ==
    /\ dlpCurve = NoCurve
    /\ dlpSolver = "none"
    /\ dlpM = 0
    /\ dlpH = <<0, 0>>
    /\ dlpK = DLPNone
    /\ dlpPc = "idle"
    /\ rhoI = 0
    /\ rhoJ = 0
    /\ rhoW1 = NoWalker
    /\ rhoW2 = NoWalker

VARIABLES
    grpCurve,      \* the group law: the curve
    grpOp,         \* the operation that the run applies
    grpP,          \* its point
    grpK,          \* its scalar k
    grpM,          \* its scalar m
    grpRes,        \* the point it returned
    grpOn,         \* what IsOnCurve returned
    grpPc          \* "call" or "done"

grpVars == <<grpCurve, grpOp, grpP, grpK, grpM, grpRes, grpOn, grpPc>>

\* No operation of the group law is applied.
GroupIdle ==
    /\ grpCurve = NoCurve
    /\ grpOp = "none"
    /\ grpP = <<0, 0>>
    /\ grpK = 0
    /\ grpM = 0
    /\ grpRes = <<0, 0>>
    /\ grpOn = FALSE
    /\ grpPc = "idle"

VARIABLES
    sigCurve,      \* testSignAndVerify: the curve
    sigPriv,       \* priv of GenerateKey
    sigPub,        \* (pubX, pubY) of GenerateKey
    sigHash,       \* hashed, as it was signed
    sigRS,         \* (r, s) of Sign
    sigOk,         \* what Verify returned for hashed
    sigFlipped,    \* hashed after the change
    sigOkFlipped,  \* what Verify returned for it
    sigPc          \* "keygen", "sign", "verify", "flip", "verified" or "done"

sigVars == <<sigCurve, sigPriv, sigPub, sigHash, sigRS, sigOk, sigFlipped,
             sigOkFlipped, sigPc>>

\* testSignAndVerify is not run.
SignIdle ==
    /\ sigCurve = NoCurve
    /\ sigPriv = 0
    /\ sigPub = <<0, 0>>
    /\ sigHash = << >>
    /\ sigRS = <<0, 0>>
    /\ sigOk = FALSE
    /\ sigFlipped = << >>
    /\ sigOkFlipped = FALSE
    /\ sigPc = "idle"

VARIABLES
    encCurve,      \* the encoders and decoders: the curve
    encOp,         \* the function that is called first
    encPoint,      \* the point (x, y) given to an encoder or to IsOnCurve
    encData,       \* the bytes an encoder returned, or those given to a decoder
    encOut,        \* what the decoder returned
    encOn,         \* what IsOnCurve returned
    encPc          \* "call", "decode" or "done"

encVars == <<encCurve, encOp, encPoint, encData, encOut, encOn, encPc>>

\* No encoder or decoder is called.
MarshalIdle ==
    /\ encCurve = NoCurve
    /\ encOp = "none"
    /\ encPoint = <<0, 0>>
    /\ encData = << >>
    /\ encOut = NilNil
    /\ encOn = FALSE
    /\ encPc = "idle"

VARIABLES
    polyM,         \* the polynomial functions: the modulus m
    polyP,         \* the receiver p, as the call leaves it
    polyQ,         \* the argument q, as the call leaves it
    polyN,         \* the integer argument: e of Exp, x of Eval
    polyOp,        \* the function that is called
    polyArgs,      \* p and q as they were given
    polyOut,       \* the polynomials that the call returned
    polyShared,    \* <<k, i>>: coefficient i of the k-th returned polynomial
                   \* is one *big.Int with a coefficient of p or q
    polyPc         \* "call", "done", "panic", or "loop" in a call that
                   \* never returns

polyVars == <<polyM, polyP, polyQ, polyN, polyOp, polyArgs, polyOut, polyShared,
              polyPc>>

\* No polynomial function is called.
PolyIdle ==
    /\ polyM = 0
    /\ polyP = NilPoly
    /\ polyQ = NilPoly
    /\ polyN = 0
    /\ polyOp = "none"
    /\ polyArgs = <<NilPoly, NilPoly>>
    /\ polyOut = << >>
    /\ polyShared = {}
    /\ polyPc = "idle"

VARIABLES
    dvCurve,       \* DivPoly: the curve c, without its cache
    dvCache,       \* c.dpCache
    dvN,           \* the argument n of the last call
    dvOut,         \* what the last call returned
    dvPc           \* "call" before the first call, "done" after a call

dvVars == <<dvCurve, dvCache, dvN, dvOut, dvPc, intSize>>

\* DivPoly is not called from outside; the build is the 64-bit one.
DivPolyIdle ==
    /\ intSize = 64
    /\ dvCurve = [P |-> 0, A |-> 0, B |-> 0]
    /\ dvCache = << >>
    /\ dvN = 0
    /\ dvOut = NilPoly
    /\ dvPc = "idle"

VARIABLES
    crtField,      \* the field size q when Schoof calls CRT, 0 for a direct call
    crtRes,        \* the residues a
    crtMod,        \* the moduli n, each [k, m] for the integer Wide^k * m
    crtOut,        \* what the call returned
    crtPc          \* "crt" or "schoof" before the call, "done" after it

crtVars == <<crtField, crtRes, crtMod, crtOut, crtPc>>

\* CRT is not called from outside Schoof and PohligHellman.
CRTIdle ==
    /\ crtField = 0
    /\ crtRes = << >>
    /\ crtMod = << >>
    /\ crtOut = [ok |-> FALSE, v |-> 0]
    /\ crtPc = "idle"

VARIABLES
    smCurve,       \* ScalarMul: the curve that A and f come from
    smRing,        \* the quotient ring pe.qr
    smEnd,         \* the endomorphism pe
    smK,           \* the scalar n
    smOut,         \* what the call returned
    smPc           \* "call" before the call, "done" after it

smVars == <<smCurve, smRing, smEnd, smK, smOut, smPc>>

\* ScalarMul is not called from outside TraceMod.
ScalarMulIdle ==
    /\ smCurve = [P |-> 0, A |-> 0, B |-> 0]
    /\ smRing = [h |-> NilPoly, q |-> 0]
    /\ smEnd = NilEndo
    /\ smK = 0
    /\ smOut = [end |-> NilEndo, err |-> Nil, factor |-> NilPoly]
    /\ smPc = "idle"

\* The variables that each part of the model leaves alone.
notSchoofVars == <<dlpVars, grpVars, sigVars, encVars, polyVars, dvVars,
        crtVars, smVars>>
notDLPVars == <<schoofVars, grpVars, sigVars, encVars, polyVars, dvVars,
        crtVars, smVars>>
notGroupVars == <<schoofVars, dlpVars, sigVars, encVars, polyVars, dvVars,
        crtVars, smVars>>
notSignVars == <<schoofVars, dlpVars, grpVars, encVars, polyVars, dvVars,
        crtVars, smVars>>
notMarshalVars == <<schoofVars, dlpVars, grpVars, sigVars, polyVars, dvVars,
        crtVars, smVars>>
notPolyVars == <<schoofVars, dlpVars, grpVars, sigVars, encVars, dvVars,
        crtVars, smVars>>
notDivPolyVars == <<schoofVars, dlpVars, grpVars, sigVars, encVars, polyVars,
        crtVars, smVars>>

notCRTVars == <<schoofVars, dlpVars, grpVars, sigVars, encVars, polyVars,
        dvVars, smVars>>

notScalarMulVars == <<schoofVars, dlpVars, grpVars, sigVars, encVars,
        polyVars, dvVars, crtVars>>

vars == <<schoofVars, dlpVars, grpVars, sigVars, encVars, polyVars, dvVars,
        crtVars, smVars>>

\* Schoof has been called on one of the cases and has not run yet.
SchoofInit ==
    /\ DivPolyIdle
    /\ ScalarMulIdle
    /\ CRTIdle
    /\ sc \in {SchoofCases[k] : k \in 1..Len(SchoofCases)}
    /\ ell = << >>
    /\ tr = << >>
    /\ dpc = "start"
    /\ ret = [order |-> 0, err |-> Nil]
    /\ done = FALSE
    /\ wpc = << >>
    /\ qrh = << >>
    /\ wtrace = << >>
    /\ DivPolyFactor = NilPoly
    /\ mpc = << >>
    /\ ms = << >>
    /\ streamClosed = FALSE
    /\ tpc = "idle"
    /\ tv = NoTrace
    /\ chClosed = FALSE
    /\ passes = FixtureAttempts(sc)
    /\ DLPIdle
    /\ GroupIdle
    /\ SignIdle
    /\ MarshalIdle
    /\ PolyIdle

\* Schoof up to its range loop: the primes are collected and a worker is
\* started for each; FanIn starts the multiplex goroutines, ToTrace its own.
\* Each worker builds qr from its division polynomial before its loop.
SchoofStart ==
    /\ dpc = "start"
    /\ LET l == SchoofEll(sc)
       IN /\ ell' = l
          /\ wpc' = [i \in 1..Len(l) |-> "loop"]
          /\ qrh' = MakePoly([i \in 1..Len(l) |-> TraceModStart(sc, l[i])])
          /\ wtrace' = [i \in 1..Len(l) |-> NoTrace]
          /\ mpc' = [i \in 1..Len(l) |-> "range"]
          /\ ms' = [i \in 1..Len(l) |-> NoTrace]
    /\ tpc' = "range"
    /\ dpc' = "range"
    /\ UNCHANGED notSchoofVars
    /\ UNCHANGED <<sc, tr, ret, done, DivPolyFactor, streamClosed, tv, chClosed, passes>>

\* TraceMod, one pass of the for loop (for ell = 2 the irreducibility test),
\* up to the send, the continue or the panic it ends with.  A failed Add or
\* Double has stored its factor in DivPolyFactor.  A pass that ends with the
\* search exhausted and err = nil starts over as it is.
WorkerPass(i) ==
    /\ wpc[i] = "loop"
    /\ IF ell[i] = 2
         THEN /\ wtrace' = [wtrace EXCEPT ![i] = [tr |-> TraceModTwo(sc), err |-> Nil]]
              /\ wpc' = [wpc EXCEPT ![i] = "send"]
              /\ UNCHANGED DivPolyFactor
         ELSE LET a == TraceModPass(passes, sc, ell[i], qrh[i])
              IN CASE a.kind = "trace" ->
                        /\ wtrace' = [wtrace EXCEPT ![i] = [tr |-> a.tr, err |-> Nil]]
                        /\ wpc' = [wpc EXCEPT ![i] = "send"]
                        /\ UNCHANGED DivPolyFactor
                   [] a.kind = "err" ->
                        /\ DivPolyFactor' = a.factor
                        /\ wpc' = [wpc EXCEPT ![i] = "continue"]
                        /\ UNCHANGED wtrace
                   [] a.kind = "panic" ->
                        /\ wpc' = [wpc EXCEPT ![i] = "panic"]
                        /\ UNCHANGED <<wtrace, DivPolyFactor>>
                   [] a.kind = "none" ->
                        UNCHANGED <<wpc, wtrace, DivPolyFactor>>
    /\ UNCHANGED notSchoofVars
    /\ UNCHANGED <<sc, ell, tr, dpc, ret, done, qrh, mpc, ms, streamClosed, tpc,
                   tv, chClosed, passes>>

\* TraceMod, the top of the for loop after ErrZeroDivision: qr.h becomes its
\* gcd with whatever DivPolyFactor holds now.
WorkerRefine(i) ==
    /\ wpc[i] = "continue"
    /\ qrh' = [qrh EXCEPT ![i] = GCD(qrh[i], DivPolyFactor, sc.P)]
    /\ wpc' = [wpc EXCEPT ![i] = "loop"]
    /\ UNCHANGED notSchoofVars
    /\ UNCHANGED <<sc, ell, tr, dpc, ret, done, wtrace, DivPolyFactor, mpc, ms,
                   streamClosed, tpc, tv, chClosed, passes>>

\* A worker that stays at its send statement after the send.
WorkerSendAgain(i) ==
    /\ wpc[i] = "send"
    /\ mpc[i] = "range"
    /\ ms' = [ms EXCEPT ![i] = wtrace[i]]
    /\ mpc' = [mpc EXCEPT ![i] = "select"]
    /\ UNCHANGED wpc
    /\ UNCHANGED notSchoofVars
    /\ UNCHANGED <<sc, ell, tr, dpc, ret, done, qrh, wtrace, DivPolyFactor,
                   streamClosed, tpc, tv, chClosed, passes>>

\* ch <- &Trace{...} in worker i, received by "for s := range c" of its
\* multiplex goroutine.
WorkerSend(i) ==
    /\ wpc[i] = "send"
    /\ mpc[i] = "range"
    /\ ms' = [ms EXCEPT ![i] = wtrace[i]]
    /\ mpc' = [mpc EXCEPT ![i] = "select"]
    /\ wpc' = [wpc EXCEPT ![i] = "return"]
    /\ UNCHANGED notSchoofVars
    /\ UNCHANGED <<sc, ell, tr, dpc, ret, done, qrh, wtrace, DivPolyFactor,
                   streamClosed, tpc, tv, chClosed, passes>>

\* The deferred close(ch) of worker i.
WorkerClose(i) ==
    /\ wpc[i] = "return"
    /\ wpc' = [wpc EXCEPT ![i] = "closed"]
    /\ UNCHANGED notSchoofVars
    /\ UNCHANGED <<sc, ell, tr, dpc, ret, done, qrh, wtrace, DivPolyFactor, mpc,
                   ms, streamClosed, tpc, tv, chClosed, passes>>

\* multiplex, the select: done is closed and it returns, or the value goes to
\* the range loop of toTrace.
MultiplexSelect(i) ==
    /\ mpc[i] = "select"
    /\ \/ /\ done
          /\ mpc' = [mpc EXCEPT ![i] = "done"]
          /\ UNCHANGED <<tpc, tv>>
       \/ /\ tpc = "range"
          /\ tv' = ms[i]
          /\ tpc' = "select"
          /\ mpc' = [mpc EXCEPT ![i] = "range"]
    /\ UNCHANGED notSchoofVars
    /\ UNCHANGED <<sc, ell, tr, dpc, ret, done, wpc, qrh, wtrace, DivPolyFactor,
                   ms, streamClosed, chClosed, passes>>

\* multiplex, the range loop ends on the closed worker channel: wg.Done().
MultiplexReturn(i) ==
    /\ mpc[i] = "range"
    /\ wpc[i] = "closed"
    /\ mpc' = [mpc EXCEPT ![i] = "done"]
    /\ UNCHANGED notSchoofVars
    /\ UNCHANGED <<sc, ell, tr, dpc, ret, done, wpc, qrh, wtrace, DivPolyFactor,
                   ms, streamClosed, tpc, tv, chClosed, passes>>

\* The goroutine of fanIn after wg.Wait(): close(multiplexedStream).
CloseStream ==
    /\ dpc # "start"
    /\ ~streamClosed
    /\ \A i \in Workers : mpc[i] = "done"
    /\ streamClosed' = TRUE
    /\ UNCHANGED notSchoofVars
    /\ UNCHANGED <<sc, ell, tr, dpc, ret, done, wpc, qrh, wtrace, DivPolyFactor,
                   mpc, ms, tpc, tv, chClosed, passes>>

\* toTrace, the range loop ends on the closed stream: the deferred close(ch).
ToTraceReturn ==
    /\ tpc = "range"
    /\ streamClosed
    /\ tpc' = "done"
    /\ chClosed' = TRUE
    /\ UNCHANGED notSchoofVars
    /\ UNCHANGED <<sc, ell, tr, dpc, ret, done, wpc, qrh, wtrace, DivPolyFactor,
                   mpc, ms, streamClosed, tv, passes>>

\* toTrace, the select: done is closed and it returns (closing ch), or the
\* trace goes to the range loop of Schoof, which returns its error or appends
\* its trace.
ToTraceSelect ==
    /\ tpc = "select"
    /\ \/ /\ done
          /\ tpc' = "done"
          /\ chClosed' = TRUE
          /\ UNCHANGED <<tr, dpc, ret, done>>
       \/ /\ dpc = "range"
          /\ tpc' = "range"
          /\ IF tv.err # Nil
               THEN /\ ret' = [order |-> 0, err |-> tv.err]
                    /\ dpc' = "returned"
                    /\ done' = TRUE
                    /\ UNCHANGED tr
               ELSE /\ tr' = Append(tr, tv.tr)
                    /\ UNCHANGED <<dpc, ret, done>>
          /\ UNCHANGED chClosed
    /\ UNCHANGED notSchoofVars
    /\ UNCHANGED <<sc, ell, wpc, qrh, wtrace, DivPolyFactor, mpc, ms,
                   streamClosed, tv, passes>>

\* Schoof after its range loop: CRT pairs tr[i] with ell[i]; the result is
\* brought into (-M/2, M/2) and the order q + 1 - t is returned.  The
\* deferred close(done) follows.
SchoofOrder(q, traces, primes) ==
    LET M == Product(primes)
        c == CRT(traces, primes).v
        t == IF c >= M \div 2 THEN c - M ELSE c
    IN (-t) + q + 1

\* Schoof returning from inside its range loop, as it would on an error.
SchoofReturnEarly ==
    /\ dpc = "range"
    /\ Len(tr) >= 1
    /\ ret' = [order |-> 0, err |-> Nil]
    /\ dpc' = "returned"
    /\ done' = TRUE
    /\ UNCHANGED notSchoofVars
    /\ UNCHANGED <<sc, ell, tr, wpc, qrh, wtrace, DivPolyFactor, mpc, ms,
                   streamClosed, tpc, tv, chClosed, passes>>

SchoofReturn ==
    /\ dpc = "range"
    /\ chClosed
    /\ ret' = [order |-> SchoofOrder(sc.P, tr, ell), err |-> Nil]
    /\ dpc' = "returned"
    /\ done' = TRUE
    /\ UNCHANGED notSchoofVars
    /\ UNCHANGED <<sc, ell, tr, wpc, qrh, wtrace, DivPolyFactor, mpc, ms,
                   streamClosed, tpc, tv, chClosed, passes>>

SchoofNext ==
    \/ SchoofStart
    \/ \E i \in Workers : WorkerPass(i)
    \/ \E i \in Workers : WorkerRefine(i)
    \/ \E i \in Workers : WorkerSend(i)
    \/ \E i \in Workers : WorkerClose(i)
    \/ \E i \in Workers : MultiplexSelect(i)
    \/ \E i \in Workers : MultiplexReturn(i)
    \/ CloseStream
    \/ ToTraceReturn
    \/ ToTraceSelect
    \/ SchoofReturn

SpecSchoof == SchoofInit /\ [][SchoofNext]_vars

\* C1: whenever Schoof has returned on a case, the error is nil and the
\* value is the number of points of the curve (80 for (97, 46, 74), 27 for
\* (19, 2, 1)).
SchoofReturnsOrder ==
    dpc = "returned" => ret.err = Nil /\ ret.order = sc.N

(***************************************************************************)
(* TestECDLP: one round of its loop, with one of the three solvers called  *)
(* on (G, H) for H = m * G.                                                *)
(***************************************************************************)

\* The curve of TestECDLP; BitSize is N.BitLen().
ECDLPCurve ==
    [P |-> 7919, A |-> 1001, B |-> 75, Gx |-> 4023, Gy |-> 6036, N |-> 7889,
     BitSize |-> 13]

\* The scalars m of the loop that the model runs: the first and the last
\* MaxScalar of [1, N) and the multiples of ScalarStride.
MaxScalar == 30
ScalarStride == 343

\* The scalars m for which the model follows PollardRho: 1..MaxRhoScalar.
MaxRhoScalar == 1

\* rnd yields a value of 0..MaxRand.
MaxRand == 1

\* The rounds of PollardRho that the model follows before the loop over i
\* ends (100000 in the code; a round depends on no earlier round).
MaxRhoRounds == 2

\* The steps j of one round.
RhoSteps == 1000

ECDLPScalars(solver) ==
    IF solver = "PollardRho" THEN 1..MaxRhoScalar
    ELSE {s \in 1..(ECDLPCurve.N - 1) :
             s <= MaxScalar \/ s >= ECDLPCurve.N - MaxScalar \/ s % ScalarStride = 0}

ECDLPInit ==
    /\ dlpCurve = ECDLPCurve
    /\ dlpSolver \in {"Shank", "PollardRho", "PohligHellman"}
    /\ dlpM \in ECDLPScalars(dlpSolver)
    /\ dlpH = <<0, 0>>
    /\ dlpK = DLPNone
    /\ dlpPc = "start"
    /\ rhoI = 0
    /\ rhoJ = 0
    /\ rhoW1 = NoWalker
    /\ rhoW2 = NoWalker
    /\ SchoofIdle
    /\ GroupIdle
    /\ SignIdle
    /\ MarshalIdle
    /\ PolyIdle
    /\ DivPolyIdle
    /\ ScalarMulIdle
    /\ CRTIdle

\* hx, hy := curve.ScalarBaseMult(m)
ECDLPTarget ==
    /\ dlpPc = "start"
    /\ dlpH' = ScalarBaseMult(dlpCurve, dlpM)
    /\ dlpPc' = "call"
    /\ UNCHANGED <<dlpCurve, dlpSolver, dlpM, dlpK, rhoI, rhoJ, rhoW1, rhoW2>>
    /\ UNCHANGED notDLPVars

\* k := curve.Shank(px, py, hx, hy)
CallShank ==
    /\ dlpPc = "call"
    /\ dlpSolver = "Shank"
    /\ dlpK' = Shank(dlpCurve, dlpCurve.Gx, dlpCurve.Gy, dlpH[1], dlpH[2])
    /\ dlpPc' = "done"
    /\ UNCHANGED <<dlpCurve, dlpSolver, dlpM, dlpH, rhoI, rhoJ, rhoW1, rhoW2>>
    /\ UNCHANGED notDLPVars

\* k = curve.PohligHellman(px, py, hx, hy), with what it leaves in curve.N
PohligHellmanReturn(res) ==
    /\ dlpK' = res.k
    /\ dlpCurve' = [dlpCurve EXCEPT !.N = res.N]

CallPohligHellman ==
    /\ dlpPc = "call"
    /\ dlpSolver = "PohligHellman"
    /\ dlpCurve.BitSize <= 100
    /\ PohligHellmanReturn(PohligHellman(dlpCurve, dlpCurve.Gx, dlpCurve.Gy,
                                         dlpH[1], dlpH[2]))
    /\ dlpPc' = "done"
    /\ UNCHANGED <<dlpSolver, dlpM, dlpH, rhoI, rhoJ, rhoW1, rhoW2>>
    /\ UNCHANGED notDLPVars

\* k = curve.PollardRho(px, py, hx, hy) up to its loops.
PollardRhoEnter ==
    /\ dlpPc = "call"
    /\ dlpSolver = "PollardRho"
    /\ IF ~IsOnCurve(dlpCurve, dlpCurve.Gx, dlpCurve.Gy)
         THEN dlpK' = DLPNone /\ dlpPc' = "done"
         ELSE dlpPc' = "round" /\ UNCHANGED dlpK
    /\ rhoI' = 0
    /\ UNCHANGED <<dlpCurve, dlpSolver, dlpM, dlpH, rhoJ, rhoW1, rhoW2>>
    /\ UNCHANGED notDLPVars

\* The head of the loop over i: return nil after the last round, or the two
\* setup calls on the four values of rnd.
PollardRhoRound ==
    /\ dlpPc = "round"
    /\ IF rhoI >= MaxRhoRounds
         THEN /\ dlpK' = DLPNone
              /\ dlpPc' = "done"
              /\ UNCHANGED <<rhoJ, rhoW1, rhoW2>>
         ELSE \E a1, b1, a2, b2 \in 0..MaxRand :
                /\ rhoW1' = RhoSetup(dlpCurve, dlpCurve.Gx, dlpCurve.Gy,
                                     dlpH[1], dlpH[2], a1, b1)
                /\ rhoW2' = RhoSetup(dlpCurve, dlpCurve.Gx, dlpCurve.Gy,
                                     dlpH[1], dlpH[2], a2, b2)
                /\ rhoJ' = 0
                /\ dlpPc' = "walk"
                /\ UNCHANGED dlpK
    /\ UNCHANGED <<dlpCurve, dlpSolver, dlpM, dlpH, rhoI>>
    /\ UNCHANGED notDLPVars

\* One step of the loop over j once the walkers have moved to w1 and w2: at
\* a collision the candidate a1 is returned when a1 * (px, py) = (hx, hy),
\* and the round ends otherwise.
PollardRhoMoved(w1, w2) ==
    /\ rhoW1' = w1
    /\ rhoW2' = w2
    /\ IF w1.x = w2.x /\ w1.y = w2.y
         THEN IF w1.b # w2.b
                   /\ ScalarMult(dlpCurve, dlpCurve.Gx, dlpCurve.Gy,
                                 RhoCandidate(dlpCurve.N, w1, w2)) = dlpH
                THEN /\ dlpK' = DLPValue(RhoCandidate(dlpCurve.N, w1, w2))
                     /\ dlpPc' = "done"
                     /\ UNCHANGED <<rhoI, rhoJ>>
                ELSE /\ rhoI' = rhoI + 1
                     /\ dlpPc' = "round"
                     /\ UNCHANGED <<dlpK, rhoJ>>
         ELSE /\ rhoJ' = rhoJ + 1
              /\ UNCHANGED <<dlpK, dlpPc, rhoI>>

\* The loop over j: the round ends after RhoSteps steps, else the first
\* walker moves by f and the second by f twice.
PollardRhoStep ==
    /\ dlpPc = "walk"
    /\ IF rhoJ >= RhoSteps
         THEN /\ rhoI' = rhoI + 1
              /\ dlpPc' = "round"
              /\ UNCHANGED <<dlpK, rhoJ, rhoW1, rhoW2>>
         ELSE PollardRhoMoved(
                  RhoF(dlpCurve, dlpCurve.Gx, dlpCurve.Gy, dlpH[1], dlpH[2], rhoW1),
                  RhoF(dlpCurve, dlpCurve.Gx, dlpCurve.Gy, dlpH[1], dlpH[2],
                       RhoF(dlpCurve, dlpCurve.Gx, dlpCurve.Gy, dlpH[1], dlpH[2],
                            rhoW2)))
    /\ UNCHANGED <<dlpCurve, dlpSolver, dlpM, dlpH>>
    /\ UNCHANGED notDLPVars

ECDLPNext ==
    \/ ECDLPTarget
    \/ CallShank
    \/ CallPohligHellman
    \/ PollardRhoEnter
    \/ PollardRhoRound
    \/ PollardRhoStep

SpecECDLP == ECDLPInit /\ [][ECDLPNext]_vars

PartlyFactoredCurves ==
    { [P |-> 17, A |-> 1, B |-> 8, Gx |-> 0, Gy |-> 5, N |-> 25, BitSize |-> 5],
      [P |-> 41, A |-> 3, B |-> 4, Gx |-> 2, Gy |-> 10, N |-> 50, BitSize |-> 6],
      [P |-> 59, A |-> 2, B |-> 22, Gx |-> 1, Gy |-> 5, N |-> 75, BitSize |-> 7],
      [P |-> 127, A |-> 1, B |-> 33, Gx |-> 5, Gy |-> 6, N |-> 150, BitSize |-> 8] }

GeneratedCurves == PartlyFactoredCurves \cup {ECDLPCurve}

\* The curve of TestECDLP with the base point 343 * G, whose order is 23.
SubgroupCurve == [ECDLPCurve EXCEPT !.Gx = 7190, !.Gy = 7003]

PohligHellmanCurves == GeneratedCurves \cup {SubgroupCurve}

\* The scalars m of the calls: 1..MaxLog, below N.
MaxLog == 160

PohligHellmanInit ==
    /\ dlpCurve \in PohligHellmanCurves
    /\ dlpSolver = "PohligHellman"
    /\ dlpM \in {s \in 1..MaxLog : s < dlpCurve.N}
    /\ dlpH = <<0, 0>>
    /\ dlpK = DLPNone
    /\ dlpPc = "start"
    /\ rhoI = 0
    /\ rhoJ = 0
    /\ rhoW1 = NoWalker
    /\ rhoW2 = NoWalker
    /\ SchoofIdle
    /\ GroupIdle
    /\ SignIdle
    /\ MarshalIdle
    /\ PolyIdle
    /\ DivPolyIdle
    /\ ScalarMulIdle
    /\ CRTIdle

PohligHellmanNext ==
    \/ ECDLPTarget
    \/ CallPohligHellman

SpecPohligHellman == PohligHellmanInit /\ [][PohligHellmanNext]_vars

\* The curve of GeneratedCurves that the call was given: c with the N it had.
GivenCurve(c) ==
    CHOOSE g \in GeneratedCurves :
        g.P = c.P /\ g.A = c.A /\ g.B = c.B /\ g.Gx = c.Gx /\ g.Gy = c.Gy

\* The product of the factors that factorize returns for n.
FactoredPart(n) == Product(factorize(n))

\* The base point of c has the order c.N.
IsGenerated(c) == <<c.Gx, c.Gy>> # <<SubgroupCurve.Gx, SubgroupCurve.Gy>>

\* C14 (as the code has it): for H = m * P and P of order N, PohligHellman
\* returns none when factorize finds no factor of N, and otherwise m modulo
\* the product of the factors that factorize found, whether or not that
\* product is N.
PohligHellmanUsesFactorsFound ==
    dlpPc = "done" /\ IsGenerated(dlpCurve)
    => dlpK = IF factorize(GivenCurve(dlpCurve).N) = << >>
                THEN DLPNone
                ELSE DLPValue(dlpM % FactoredPart(GivenCurve(dlpCurve).N))

\* PohligHellman has returned m mod 6 for an m above 6 on the curve of
\* order 150, of which factorize finds the factors 2 and 3.
ReturnedFromPartialFactors ==
    /\ dlpPc = "done"
    /\ IsGenerated(dlpCurve)
    /\ GivenCurve(dlpCurve).N = 150
    /\ dlpM > 6
    /\ dlpK = DLPValue(dlpM % 6)

\* C14 as stated: when factorize leaves a cofactor of N unfactored,
\* PohligHellman returns none.
IncompleteFactorizationReturnsNone ==
    /\ dlpPc = "done"
    /\ IsGenerated(dlpCurve)
    /\ FactoredPart(GivenCurve(dlpCurve).N) # GivenCurve(dlpCurve).N
    => dlpK = DLPNone

\* C15: PohligHellman leaves the fields of the curve, its order N among
\* them, as they were before the call, on every return path.
CurveLeftAlone == [][dlpCurve' = dlpCurve]_vars

(***************************************************************************)
(* The group law on the curves of sampleCurves that fit the model's        *)
(* integers: one operation applied to one input.                           *)
(***************************************************************************)

TOY == [P |-> 29, A |-> 4, B |-> 20, Gx |-> 1, Gy |-> 5, N |-> 37, BitSize |-> 6]

SMALL == [P |-> 229, A |-> 1, B |-> 44, Gx |-> 5, Gy |-> 116, N |-> 239, BitSize |-> 8]

SampleCurves == {TOY, SMALL}

\* The points that IsOnCurve accepts.
CurvePoints(c) == {pt \in (0..(c.P - 1)) \X (0..(c.P - 1)) : IsOnCurve(c, pt[1], pt[2])}

\* The scalars k of ScalarMult that the model applies: 0..MaxMult.
MaxMult == 40

\* The scalars of CombinedMult that the model applies: 0..MaxBase.
MaxBase == 3

\* The operations on one point.
PointOps == {"AddInfinity", "AddToInfinity", "Double", "AddSelf", "AddNeg", "IsOnCurve"}

\* The inputs [P, k, m] that the model gives to an operation.
GroupInputs(c, op) ==
    IF op = "ScalarMult"
      THEN {[P |-> pt, k |-> k, m |-> 0] : pt \in CurvePoints(c), k \in 0..MaxMult}
    ELSE IF op = "ScalarBaseMult"
      THEN {[P |-> <<c.Gx, c.Gy>>, k |-> k, m |-> 0] : k \in 0..c.N}
    ELSE IF op = "CombinedMult"
      THEN {[P |-> pt, k |-> k, m |-> n] :
               pt \in CurvePoints(c), k \in 0..MaxBase, n \in 0..MaxBase}
    ELSE {[P |-> pt, k |-> 0, m |-> 0] : pt \in CurvePoints(c) \cup {<<0, 0>>}}

GroupInit ==
    /\ grpCurve \in SampleCurves
    /\ grpOp \in {"ScalarMult", "ScalarBaseMult", "CombinedMult"} \cup PointOps
    /\ \E in \in GroupInputs(grpCurve, grpOp) :
          grpP = in.P /\ grpK = in.k /\ grpM = in.m
    /\ grpRes = <<0, 0>>
    /\ grpOn = FALSE
    /\ grpPc = "call"
    /\ SchoofIdle
    /\ DLPIdle
    /\ SignIdle
    /\ MarshalIdle
    /\ PolyIdle
    /\ DivPolyIdle
    /\ ScalarMulIdle
    /\ CRTIdle

\* The operation returns the point pt.
GroupReturn(pt) ==
    /\ grpRes' = pt
    /\ grpPc' = "done"
    /\ UNCHANGED <<grpCurve, grpOp, grpP, grpK, grpM, grpOn>>
    /\ UNCHANGED notGroupVars

CallScalarMult ==
    /\ grpPc = "call" /\ grpOp = "ScalarMult"
    /\ GroupReturn(ScalarMult(grpCurve, grpP[1], grpP[2], grpK))

CallScalarBaseMult ==
    /\ grpPc = "call" /\ grpOp = "ScalarBaseMult"
    /\ GroupReturn(ScalarBaseMult(grpCurve, grpK))

CallCombinedMult ==
    /\ grpPc = "call" /\ grpOp = "CombinedMult"
    /\ GroupReturn(CombinedMult(grpCurve, grpP[1], grpP[2], grpM, grpK))

\* curve.Add(x, y, baseX, baseY) with (x, y) the point at infinity
CallAddInfinity ==
    /\ grpPc = "call" /\ grpOp = "AddInfinity"
    /\ GroupReturn(CurveAdd(grpCurve, 0, 0, grpP[1], grpP[2]))

\* curve.Add(baseX, baseY, x, y) with (x, y) the point at infinity
CallAddToInfinity ==
    /\ grpPc = "call" /\ grpOp = "AddToInfinity"
    /\ GroupReturn(CurveAdd(grpCurve, grpP[1], grpP[2], 0, 0))

CallDouble ==
    /\ grpPc = "call" /\ grpOp = "Double"
    /\ GroupReturn(CurveDouble(grpCurve, grpP[1], grpP[2]))

CallAddSelf ==
    /\ grpPc = "call" /\ grpOp = "AddSelf"
    /\ GroupReturn(CurveAdd(grpCurve, grpP[1], grpP[2], grpP[1], grpP[2]))

\* Add on the point and the point that Neg returned for it.
AddNegated(c, x, y, np) == CurveAdd(c, x, y, np[1], np[2])

CallAddNeg ==
    /\ grpPc = "call" /\ grpOp = "AddNeg"
    /\ GroupReturn(AddNegated(grpCurve, grpP[1], grpP[2],
                              CurveNeg(grpCurve, grpP[1], grpP[2])))

CallIsOnCurve ==
    /\ grpPc = "call" /\ grpOp = "IsOnCurve"
    /\ grpOn' = IsOnCurve(grpCurve, grpP[1], grpP[2])
    /\ grpPc' = "done"
    /\ UNCHANGED <<grpCurve, grpOp, grpP, grpK, grpM, grpRes>>
    /\ UNCHANGED notGroupVars

GroupNext ==
    \/ CallScalarMult
    \/ CallScalarBaseMult
    \/ CallCombinedMult
    \/ CallAddInfinity
    \/ CallAddToInfinity
    \/ CallDouble
    \/ CallAddSelf
    \/ CallAddNeg
    \/ CallIsOnCurve

SpecGroup == GroupInit /\ [][GroupNext]_vars

\* The k-fold sum (x, y) + ... + (x, y), computed with Add from the point at
\* infinity.
RECURSIVE KFoldAdd(_, _, _, _)
KFoldAddOnce(c, x, y, sum) == CurveAdd(c, sum[1], sum[2], x, y)

KFoldAdd(c, x, y, k) ==
    IF k = 0 THEN <<0, 0>> ELSE KFoldAddOnce(c, x, y, KFoldAdd(c, x, y, k - 1))

\* Add on two points.
AddPoints(c, p1, p2) == CurveAdd(c, p1[1], p1[2], p2[1], p2[2])

\* C3: ScalarMult(P, k) is the k-fold sum of P computed with Add, the point
\* at infinity (0, 0) for k = 0; ScalarBaseMult(n) is (0, 0) for the order n
\* of the base point and ScalarBaseMult(1) is G; CombinedMult(Q, m, k) is
\* Add(ScalarBaseMult(m), ScalarMult(Q, k)).
ScalarMultIsRepeatedAdd ==
    grpPc = "done" =>
        /\ grpOp = "ScalarMult" =>
              /\ grpRes = KFoldAdd(grpCurve, grpP[1], grpP[2], grpK)
              /\ grpK = 0 => grpRes = <<0, 0>>
        /\ grpOp = "ScalarBaseMult" =>
              /\ grpK = grpCurve.N => grpRes = <<0, 0>>
              /\ grpK = 1 => grpRes = <<grpCurve.Gx, grpCurve.Gy>>
              /\ grpK <= MaxMult =>
                    grpRes = KFoldAdd(grpCurve, grpCurve.Gx, grpCurve.Gy, grpK)
        /\ grpOp = "CombinedMult" =>
              grpRes = AddPoints(grpCurve, ScalarBaseMult(grpCurve, grpM),
                                 ScalarMult(grpCurve, grpP[1], grpP[2], grpK))

\* ScalarMult has returned a point of the curve for a scalar above the order
\* of the group.
ScalarMultBeyondOrder ==
    /\ grpPc = "done"
    /\ grpOp = "ScalarMult"
    /\ grpK > grpCurve.N
    /\ IsOnCurve(grpCurve, grpRes[1], grpRes[2])

\* C4: with (0, 0) the point at infinity, Add((0, 0), P) = P and
\* Add(P, (0, 0)) = P for every point P of the curve, Double((0, 0)) = (0, 0),
\* Add(P, Neg(P)) = (0, 0), Add(P, P) = Double(P), and IsOnCurve(0, 0) is
\* false.
InfinityIsNeutral ==
    grpPc = "done" =>
        /\ grpOp \in {"AddInfinity", "AddToInfinity"} => grpRes = grpP
        /\ grpOp = "Double" /\ grpP = <<0, 0>> => grpRes = <<0, 0>>
        /\ grpOp = "AddNeg" => grpRes = <<0, 0>>
        /\ grpOp = "AddSelf" => grpRes = CurveDouble(grpCurve, grpP[1], grpP[2])
        /\ grpOp = "IsOnCurve" /\ grpP = <<0, 0>> => ~grpOn

\* Add has returned the point at infinity for a point of the curve and its
\* negative.
AddNegReturnsInfinity ==
    /\ grpPc = "done"
    /\ grpOp = "AddNeg"
    /\ IsOnCurve(grpCurve, grpP[1], grpP[2])
    /\ grpRes = <<0, 0>>

(***************************************************************************)
(* testSignAndVerify: GenerateKey, Sign, Verify, a change of one bit of    *)
(* the hash, Verify.                                                       *)
(***************************************************************************)

\* The private keys that the model draws: 1..MaxKey, below the order.
MaxKey == 3

\* The keys k that GenerateKey yields in Sign: 1..MaxNonce, below the order.
MaxNonce == 20

\* The hashes that the model signs: up to MaxHashLen bytes out of HashBytes
\* ('t' is the first byte of the test's hash).
MaxHashLen == 2

HashBytes == {0, 116, 255}

Hashes == UNION {[1..n -> HashBytes] : n \in 0..MaxHashLen}

\* The values that rand.Int(rnd, N - 1) + 1 yields, up to max.
KeysUpTo(c, max) == {k \in 1..(c.N - 1) : k <= max}

\* b with bit i changed.
FlipBit(b, i) == IF (b \div Pow2(i)) % 2 = 1 THEN b - Pow2(i) ELSE b + Pow2(i)

SignInit ==
    /\ sigCurve \in SampleCurves
    /\ sigHash \in Hashes
    /\ sigPriv = 0
    /\ sigPub = <<0, 0>>
    /\ sigRS = <<0, 0>>
    /\ sigOk = FALSE
    /\ sigFlipped = << >>
    /\ sigOkFlipped = FALSE
    /\ sigPc = "keygen"
    /\ SchoofIdle
    /\ DLPIdle
    /\ GroupIdle
    /\ MarshalIdle
    /\ PolyIdle
    /\ DivPolyIdle
    /\ ScalarMulIdle
    /\ CRTIdle

\* priv, pubX, pubY, _ := curve.GenerateKey()
GenerateKey ==
    /\ sigPc = "keygen"
    /\ \E d \in KeysUpTo(sigCurve, MaxKey) :
          /\ sigPriv' = d
          /\ sigPub' = ScalarBaseMult(sigCurve, d)
    /\ sigPc' = "sign"
    /\ UNCHANGED <<sigCurve, sigHash, sigRS, sigOk, sigFlipped, sigOkFlipped>>
    /\ UNCHANGED notSignVars

\* Sign returns the pair of the pass, or its loop goes on.
SignReturn(pass) ==
    IF pass.ok
      THEN sigRS' = <<pass.r, pass.s>> /\ sigPc' = "verify"
      ELSE UNCHANGED <<sigRS, sigPc>>

\* r, s := curve.Sign(priv, hashed): one pass of its loop
CallSign ==
    /\ sigPc = "sign"
    /\ \E k \in KeysUpTo(sigCurve, MaxNonce) :
          SignReturn(Sign(sigCurve, sigPriv, sigHash, k))
    /\ UNCHANGED <<sigCurve, sigPriv, sigPub, sigHash, sigOk, sigFlipped, sigOkFlipped>>
    /\ UNCHANGED notSignVars

\* curve.Verify(pubX, pubY, hashed, r, s)
CallVerify ==
    /\ sigPc = "verify"
    /\ sigOk' = Verify(sigCurve, sigPub[1], sigPub[2], sigHash, sigRS[1], sigRS[2])
    /\ sigPc' = "flip"
    /\ UNCHANGED <<sigCurve, sigPriv, sigPub, sigHash, sigRS, sigFlipped, sigOkFlipped>>
    /\ UNCHANGED notSignVars

\* One bit of one byte of hashed is changed.
ChangeBit ==
    /\ sigPc = "flip"
    /\ \E n \in 1..Len(sigHash), i \in 0..7 :
          sigFlipped' = [sigHash EXCEPT ![n] = FlipBit(sigHash[n], i)]
    /\ sigPc' = "verified"
    /\ UNCHANGED <<sigCurve, sigPriv, sigPub, sigHash, sigRS, sigOk, sigOkFlipped>>
    /\ UNCHANGED notSignVars

\* curve.Verify(pubX, pubY, hashed, r, s) on the changed hash
CallVerifyChanged ==
    /\ sigPc = "verified"
    /\ sigOkFlipped' = Verify(sigCurve, sigPub[1], sigPub[2], sigFlipped,
                              sigRS[1], sigRS[2])
    /\ sigPc' = "done"
    /\ UNCHANGED <<sigCurve, sigPriv, sigPub, sigHash, sigRS, sigOk, sigFlipped>>
    /\ UNCHANGED notSignVars

SignNext ==
    \/ GenerateKey
    \/ CallSign
    \/ CallVerify
    \/ ChangeBit
    \/ CallVerifyChanged

SpecSign == SignInit /\ [][SignNext]_vars

\* C5: Verify accepts, under the public key Q = d * G, the pair (r, s) that
\* Sign(d, H) returned, for every key d, hash H and nonce of Sign.
VerifyAcceptsSigned ==
    sigPc \in {"flip", "verified", "done"} => sigOk

\* Verify has accepted a pair signed for a hash whose integer is not below
\* the order.
VerifiedUnreducedHash ==
    /\ sigPc = "flip"
    /\ sigOk
    /\ hashToInt(sigCurve, sigHash) >= sigCurve.N

\* The hash integers that Verify accepts with the pair (r, s) signed for z
\* under the key d: z itself and -z - 2rd, mod N.
AcceptedWith(N, z, r, d, w) ==
    \/ (w - z) % N = 0
    \/ (w + z + 2 * r * d) % N = 0

MaxPrefix == 5

\* The other bytes of these data: 0..MaxDataByte.
MaxDataByte == 31

\* Coordinates are moved out of [0, P) by up to MaxShift times P.
MaxShift == 1

\* The points given to the encoders: k * G for k in 1..MaxPointMult, below
\* the order; these are all the points of TOY and of SMALL.
MaxPointMult == 250

MarshalPoints(c) == {ScalarBaseMult(c, k) : k \in KeysUpTo(c, MaxPointMult)}

\* The curves of the tests: those of sampleCurves with a P that the model's
\* integers hold, of one byte, and the curve of TestECDLP, of two bytes.
MarshalCurves == SampleCurves \cup {ECDLPCurve}

\* The data given to a decoder: the bytes prefix, x, y, 0 and what is left of
\* them when bytes are cut off the end.
DecoderData ==
    {SubSeq(<<f, x, y, 0>>, 1, n) :
        f \in 0..MaxPrefix, x \in 0..MaxDataByte, y \in 0..MaxDataByte, n \in 0..4}

\* The points of the curve with a coordinate negated or moved by multiples
\* of P.
OffFieldPoints(c) ==
    UNION {{<<pt[1] + i * c.P, pt[2] + j * c.P>> :
               i \in (0 - MaxShift)..MaxShift, j \in (0 - MaxShift)..MaxShift}
           \cup {<<0 - pt[1], pt[2]>>, <<pt[1], 0 - pt[2]>>} :
           pt \in MarshalPoints(c)}

\* The inputs [P, data] of the function op.
MarshalInputs(c, op) ==
    IF op \in {"Marshal", "MarshalCompressed"}
      THEN {[P |-> pt, data |-> << >>] : pt \in MarshalPoints(c) \cup {<<0, 0>>}}
    ELSE IF op \in {"Unmarshal", "UnmarshalCompressed"}
      THEN {[P |-> <<0, 0>>, data |-> d] : d \in DecoderData}
    ELSE {[P |-> pt, data |-> << >>] : pt \in OffFieldPoints(c)}

MarshalInit ==
    /\ encCurve \in MarshalCurves
    /\ encOp \in {"Marshal", "MarshalCompressed", "Unmarshal", "UnmarshalCompressed",
                  "IsOnCurve"}
    /\ \E in \in MarshalInputs(encCurve, encOp) :
          /\ encPoint = in.P
          /\ encData = in.data
    /\ encOut = NilNil
    /\ encOn = FALSE
    /\ encPc = "call"
    /\ SchoofIdle
    /\ DLPIdle
    /\ GroupIdle
    /\ SignIdle
    /\ PolyIdle
    /\ DivPolyIdle
    /\ ScalarMulIdle
    /\ CRTIdle

\* serialized := curve.Marshal(x, y)
CallMarshal ==
    /\ encPc = "call"
    /\ encOp = "Marshal"
    /\ encData' = Marshal(encCurve, encPoint[1], encPoint[2])
    /\ encPc' = "decode"
    /\ UNCHANGED <<encCurve, encOp, encPoint, encOut, encOn>>
    /\ UNCHANGED notMarshalVars

\* got := curve.MarshalCompressed(x, y)
CallMarshalCompressed ==
    /\ encPc = "call"
    /\ encOp = "MarshalCompressed"
    /\ encData' = MarshalCompressed(encCurve, encPoint[1], encPoint[2])
    /\ encPc' = "decode"
    /\ UNCHANGED <<encCurve, encOp, encPoint, encOut, encOn>>
    /\ UNCHANGED notMarshalVars

\* xx, yy := curve.Unmarshal(serialized)
CallUnmarshal ==
    /\ \/ encPc = "decode" /\ encOp = "Marshal"
       \/ encPc = "call" /\ encOp = "Unmarshal"
    /\ encOut' = Unmarshal(encCurve, encData)
    /\ encPc' = "done"
    /\ UNCHANGED <<encCurve, encOp, encPoint, encData, encOn>>
    /\ UNCHANGED notMarshalVars

\* X, Y := curve.UnmarshalCompressed(got)
CallUnmarshalCompressed ==
    /\ \/ encPc = "decode" /\ encOp = "MarshalCompressed"
       \/ encPc = "call" /\ encOp = "UnmarshalCompressed"
    /\ encOut' = UnmarshalCompressed(encCurve, encData)
    /\ encPc' = "done"
    /\ UNCHANGED <<encCurve, encOp, encPoint, encData, encOn>>
    /\ UNCHANGED notMarshalVars

\* curve.IsOnCurve(xx, yy)
CheckIsOnCurve ==
    /\ encPc = "call"
    /\ encOp = "IsOnCurve"
    /\ encOn' = IsOnCurve(encCurve, encPoint[1], encPoint[2])
    /\ encPc' = "done"
    /\ UNCHANGED <<encCurve, encOp, encPoint, encData, encOut>>
    /\ UNCHANGED notMarshalVars

MarshalNext ==
    \/ CallMarshal
    \/ CallMarshalCompressed
    \/ CallUnmarshal
    \/ CallUnmarshalCompressed
    \/ CheckIsOnCurve

SpecMarshal == MarshalInit /\ [][MarshalNext]_vars

\* data is a byte first, then each of the numbers of xs in n bytes,
\* big-endian.
HasLayout(data, first, xs, n) ==
    /\ Len(data) = 1 + n * Len(xs)
    /\ data[1] = first
    /\ \A i \in 1..Len(xs) :
          /\ SetBytes(SubSeq(data, 2 + n * (i - 1), 1 + n * i)) = xs[i]
          /\ \A j \in (2 + n * (i - 1))..(1 + n * i) : data[j] \in 0..255

\* C7: for every point (x, y) of the curve other than (0, 0), Unmarshal
\* returns (x, y) for the bytes of Marshal(x, y) and UnmarshalCompressed
\* returns (x, y) for the bytes of MarshalCompressed(x, y); the bytes of
\* Marshal are 4, x and y, those of MarshalCompressed are 2 + (y mod 2) and
\* x, each number in (BitSize + 7) / 8 bytes.
EncodingRoundTrip ==
    /\ encPc = "done" /\ encOp = "Marshal" /\ encPoint # <<0, 0>> =>
          /\ encOut = Decoded(encPoint[1], encPoint[2])
          /\ HasLayout(encData, 4, encPoint, (encCurve.BitSize + 7) \div 8)
    /\ encPc = "done" /\ encOp = "MarshalCompressed" /\ encPoint # <<0, 0>> =>
          /\ encOut = Decoded(encPoint[1], encPoint[2])
          /\ HasLayout(encData, 2 + (encPoint[2] % 2), <<encPoint[1]>>,
                       (encCurve.BitSize + 7) \div 8)

\* UnmarshalCompressed has returned a point with an odd y from three bytes
\* that start with 3, the x in two of them.
OddPointDecoded ==
    /\ encPc = "done"
    /\ encOp = "MarshalCompressed"
    /\ Len(encData) = 3
    /\ encData[1] = 3
    /\ encPoint[2] % 2 = 1
    /\ encOut = Decoded(encPoint[1], encPoint[2])

\* x^3 + Ax + B is y^2 mod P.
SatisfiesEquation(c, x, y) ==
    (((y * y) % c.P) - (((((x * x) % c.P) * x) % c.P) + ((c.A * x) % c.P) + c.B)) % c.P = 0

\* The data are not the bytes 4, x, y of a point (x, y) of the curve with x
\* and y in [0, P), each in n bytes.
InvalidData(c, data, n) ==
    \/ Len(data) # 1 + 2 * n
    \/ data[1] # 4
    \/ SetBytes(SubSeq(data, 2, 1 + n)) >= c.P
    \/ SetBytes(SubSeq(data, 2 + n, Len(data))) >= c.P
    \/ ~SatisfiesEquation(c, SetBytes(SubSeq(data, 2, 1 + n)),
                          SetBytes(SubSeq(data, 2 + n, Len(data))))

\* The data are not the bytes 2 or 3, x of some point (x, y) of the curve
\* with x in [0, P), in n bytes.
InvalidCompressedData(c, data, n) ==
    \/ Len(data) # 1 + n
    \/ data[1] \notin {2, 3}
    \/ SetBytes(SubSeq(data, 2, Len(data))) >= c.P
    \/ \A y \in 0..(c.P - 1) : ~SatisfiesEquation(c, SetBytes(SubSeq(data, 2, Len(data))), y)

\* IsOnCurve is false outside [0, P), and a decoder returns two nils or two
\* numbers, and two nils for invalid data.
DecodersReject ==
    /\ encPc = "done" /\ encOp = "IsOnCurve"
       /\ (encPoint[1] \notin 0..(encCurve.P - 1) \/ encPoint[2] \notin 0..(encCurve.P - 1))
       => ~encOn
    /\ encPc = "done" => encOut.xNil = encOut.yNil
    /\ encPc = "done" /\ encOp \in {"Marshal", "Unmarshal"}
       /\ InvalidData(encCurve, encData, (encCurve.BitSize + 7) \div 8)
       => encOut = NilNil
    /\ encPc = "done" /\ encOp \in {"MarshalCompressed", "UnmarshalCompressed"}
       /\ InvalidCompressedData(encCurve, encData, (encCurve.BitSize + 7) \div 8)
       => encOut = NilNil

MaxPolyLen == 3

\* The moduli: the primes 2 and 3, and 4, which has a zero divisor.
Moduli == {2, 3, 4}

\* m is a prime.
IsPrime(m) == m > 1 /\ \A d \in 2..(m - 1) : m % d # 0

\* The slices with coefficients in 0..m-1 of up to n coefficients; the last
\* coefficient may be 0.
ReducedPolys(m, n) == UNION {[1..k -> 0..(m - 1)] : k \in 1..n}

\* The slices given to the functions: those of ReducedPolys, and the same
\* with m taken off every coefficient (the test's -6, -5, 1 is not reduced).
Unreduced(p, m) == MakePoly([i \in 1..Len(p) |-> p[i] - m])

Polys(m) ==
    ReducedPolys(m, MaxPolyLen) \cup {Unreduced(p, m) : p \in ReducedPolys(m, MaxPolyLen)}

\* ExtendedGCD is called with a prime modulus, Div with every modulus.
PolyOps(m) == IF IsPrime(m) THEN {"Div", "ExtendedGCD"} ELSE {"Div"}

\* p after p.sanitize(m) with the result dropped: every coefficient is
\* reduced where it is, the length stays.
SanitizedInPlace(p, m) == MakePoly([i \in 1..Len(p) |-> p[i] % m])

\* The coefficients i > ln of the k-th returned polynomial res.
SharedTail(k, ln, res) == {<<k, i>> : i \in (ln + 1)..Len(res)}

\* What Div's results share with p: the remainder is p.Clone(0), which copies
\* the pointers, when p is shorter than q, and p itself when the loop makes
\* no round; a round's Sub has operands of one length and copies nothing.
DivShares(p, q, m) ==
    IF Len(p) < Len(q) THEN SharedTail(2, 0, p)
    ELSE IF isZero(SanitizedInPlace(p, m)) THEN {<<2, 1>>}
    ELSE {}

PolyInit ==
    /\ polyM \in Moduli
    /\ polyOp \in PolyOps(polyM)
    /\ polyP \in Polys(polyM)
    /\ polyQ \in Polys(polyM)
    /\ polyN = 0
    /\ polyArgs = <<polyP, polyQ>>
    /\ polyOut = << >>
    /\ polyShared = {}
    /\ polyPc = "call"
    /\ SchoofIdle
    /\ DLPIdle
    /\ GroupIdle
    /\ SignIdle
    /\ MarshalIdle
    /\ DivPolyIdle
    /\ ScalarMulIdle
    /\ CRTIdle

\* Div returns the pair of d, or its loop never ends.
DivReturn(d) ==
    IF d.halts
      THEN polyOut' = DivPair(d) /\ polyPc' = "done"
      ELSE polyOut' = polyOut /\ polyPc' = "loop"

\* q, r := p.Div(q, m)
CallDiv ==
    /\ polyPc = "call"
    /\ polyOp = "Div"
    /\ DivReturn(DivFull(polyP, polyQ, polyM))
    /\ polyP' = SanitizedInPlace(polyP, polyM)
    /\ polyShared' = IF DivFull(polyP, polyQ, polyM).halts
                       THEN DivShares(polyP, polyQ, polyM) ELSE {}
    /\ UNCHANGED <<polyM, polyQ, polyN, polyOp, polyArgs>>
    /\ UNCHANGED notPolyVars

\* ExtendedGCD returns its three polynomials, or a Div in it never returns.
ExtendedGCDReturn(halts) ==
    IF halts
      THEN polyOut' = ExtendedGCD(polyP, polyQ, polyM) /\ polyPc' = "done"
      ELSE polyOut' = polyOut /\ polyPc' = "loop"

\* g, s, t := p.ExtendedGCD(q, m).  The first Div, or Monic where q is zero,
\* reduces p where it is; q is the receiver of a Div, and reduced, once the
\* first Div has returned.
CallExtendedGCD ==
    /\ polyPc = "call"
    /\ polyOp = "ExtendedGCD"
    /\ ExtendedGCDReturn(ExtendedGCDHalts(polyP, polyQ, polyM))
    /\ polyP' = SanitizedInPlace(polyP, polyM)
    /\ polyQ' = IF ~isZero(polyQ) /\ DivFull(polyP, polyQ, polyM).halts
                  THEN SanitizedInPlace(polyQ, polyM) ELSE polyQ
    /\ UNCHANGED <<polyM, polyN, polyOp, polyArgs, polyShared>>
    /\ UNCHANGED notPolyVars

PolyNext ==
    \/ CallDiv
    \/ CallExtendedGCD

SpecPoly == PolyInit /\ [][PolyNext]_vars

\* The coefficient of x^(k-1) in p.
CoefAt(p, k) == IF k \in 1..Len(p) THEN p[k] ELSE 0

\* The coefficient of x^(k-1) in the product of a and b, from the terms
\* a[i] * b[k+1-i] with i <= n.
RECURSIVE ProductCoef(_, _, _, _)
ProductCoef(a, b, k, n) ==
    IF n = 0 THEN 0 ELSE CoefAt(a, n) * CoefAt(b, k + 1 - n) + ProductCoef(a, b, k, n - 1)

\* p = a * b + d, coefficient by coefficient, mod m.
IsProductPlus(p, a, b, d, m) ==
    \A k \in 1..(Len(p) + Len(a) + Len(b) + Len(d)) :
        (CoefAt(p, k) - ProductCoef(a, b, k, k) - CoefAt(d, k)) % m = 0

\* The degree of p mod m; -1 for the zero polynomial.
DegMod(p, m) == MaxOf({0} \cup {i \in 1..Len(p) : p[i] % m # 0}) - 1

\* a has an inverse mod m.
Invertible(a, m) == \E x \in 0..(m - 1) : (a * x) % m = 1

\* C9: for every modulus m, every p and every q whose leading coefficient
\* has an inverse mod m, Div(p, q, m) returns (quo, rem) with
\* p = quo * q + rem coefficient by coefficient mod m, and rem is zero or of
\* a smaller degree than q.
DivIsEuclidean ==
    /\ polyPc \in {"done", "loop"}
    /\ polyOp = "Div"
    /\ Invertible(polyArgs[2][Len(polyArgs[2])], polyM)
    => /\ polyPc = "done"
       /\ IsProductPlus(polyArgs[1], polyOut[1], polyArgs[2], polyOut[2], polyM)
       /\ DegMod(polyOut[2], polyM) < DegMod(polyArgs[2], polyM)

\* Div has returned a quotient of degree 1 and a remainder other than zero
\* for a q whose leading coefficient, 3, is not 1, modulo 4.
DividedModuloFour ==
    /\ polyPc = "done"
    /\ polyOp = "Div"
    /\ polyM = 4
    /\ Len(polyArgs[2]) = 2
    /\ polyArgs[2][2] = 3
    /\ Len(polyOut[1]) = 2
    /\ ~isZero(polyOut[2])

\* g divides p mod m.
Divides(g, p, m) ==
    \E d \in ReducedPolys(m, Len(p)) : IsProductPlus(p, d, g, <<0>>, m)

\* g = s * p + t * q, coefficient by coefficient, mod m.
IsCombination(g, s, p, t, q, m) ==
    \A k \in 1..(Len(g) + Len(s) + Len(p) + Len(t) + Len(q)) :
        (CoefAt(g, k) - ProductCoef(s, p, k, k) - ProductCoef(t, q, k, k)) % m = 0

\* C10: for every prime m and p, q not both zero, ExtendedGCD(p, q, m)
\* returns (g, s, t) where g is monic, divides p and q, and is
\* s * p + t * q mod m: the monic greatest common divisor with its cofactors.
ExtendedGCDIdentity ==
    /\ polyPc \in {"done", "loop"}
    /\ polyOp = "ExtendedGCD"
    /\ IsPrime(polyM)
    /\ (DegMod(polyArgs[1], polyM) >= 0 \/ DegMod(polyArgs[2], polyM) >= 0)
    => /\ polyPc = "done"
       /\ polyOut[1][Len(polyOut[1])] = 1
       /\ Divides(polyOut[1], polyArgs[1], polyM)
       /\ Divides(polyOut[1], polyArgs[2], polyM)
       /\ IsCombination(polyOut[1], polyOut[2], polyArgs[1], polyOut[3], polyArgs[2],
                        polyM)

(***************************************************************************)
(* polynomial_test.go: every function of polynomial.go on the coefficient  *)
(* slices of up to MaxOpsLen coefficients, and on slices of the tests.     *)
(***************************************************************************)

MaxOpsLen == 3

\* The largest e of Exp and x of Eval.
MaxExp == 3

\* The modulus that is absent: m = nil.
NilInt == -1

OpsModuli == {2, 3}

OpsPolys(m) ==
    ReducedPolys(m, MaxOpsLen) \cup {Unreduced(p, m) : p \in ReducedPolys(m, MaxOpsLen)}

\* The slices given with no modulus.
IntPolys == OpsPolys(2)

PolyCall(op, m, p, q, n) == [op |-> op, m |-> m, p |-> p, q |-> q, n |-> n]

\* The cases of TestDeriv and TestModInverse with up to four coefficients,
\* and the derivative of 5 - 4x + 3x^2 + 3x^3 modulo 7.
TestCalls ==
    { PolyCall("Deriv", 7, <<5>>, NilPoly, 0),
      PolyCall("Deriv", 7, <<0, 8>>, NilPoly, 0),
      PolyCall("Deriv", 7, <<4, 0, 0, 1>>, NilPoly, 0),
      PolyCall("Deriv", 7, <<5, -4, 3, 3>>, NilPoly, 0),
      PolyCall("ModInverse", 2, <<1, 0, 1>>, <<1, 0, 1, 1>>, 0) }

\* The functions of two polynomials, of one, and of one and an integer.
BinaryOps == {"Add", "Sub", "Mul", "Div", "GCD", "ExtendedGCD", "ModInverse"}
UnaryOps == {"Monic", "Deriv"}
IntegerOps == {"Exp", "Eval"}

\* The functions that are called with no modulus.
NilModulusOps == {"Add", "Sub", "Mul"}

\* The call that is made: the function, its modulus and its arguments.
PolyOpsCall ==
    \/ /\ polyM \in OpsModuli
       /\ polyOp \in BinaryOps
       /\ polyP \in OpsPolys(polyM)
       /\ polyQ \in OpsPolys(polyM)
       /\ polyN = 0
    \/ /\ polyM = NilInt
       /\ polyOp \in NilModulusOps
       /\ polyP \in IntPolys
       /\ polyQ \in IntPolys
       /\ polyN = 0
    \/ /\ polyM \in OpsModuli
       /\ polyOp \in UnaryOps
       /\ polyP \in OpsPolys(polyM)
       /\ polyQ = NilPoly
       /\ polyN = 0
    \/ /\ polyM \in OpsModuli
       /\ polyOp \in IntegerOps
       /\ polyP \in OpsPolys(polyM)
       /\ polyQ = NilPoly
       /\ polyN \in 0..MaxExp
    \/ \E call \in TestCalls :
        /\ polyOp = call.op
        /\ polyM = call.m
        /\ polyP = call.p
        /\ polyQ = call.q
        /\ polyN = call.n

PolyOpsInit ==
    /\ PolyOpsCall
    /\ polyArgs = <<polyP, polyQ>>
    /\ polyOut = << >>
    /\ polyShared = {}
    /\ polyPc = "call"
    /\ SchoofIdle
    /\ DLPIdle
    /\ GroupIdle
    /\ SignIdle
    /\ MarshalIdle
    /\ DivPolyIdle
    /\ ScalarMulIdle
    /\ CRTIdle

\* big.Int.Mod reads its modulus: with m = nil it panics.
ModPanics(m) == m = NilInt

\* The call returns out, which shares the coefficients shared with its
\* inputs.
PolyReturn(out, shared) ==
    /\ polyOut' = out
    /\ polyShared' = shared
    /\ polyPc' = "done"

\* The call ends in a panic, or in a loop that never ends.
PolyNoReturn(pc) ==
    /\ polyOut' = polyOut
    /\ polyShared' = {}
    /\ polyPc' = pc

\* Add's loop of Mod runs over the smaller operand.
AddPanics(p, q, m) == ModPanics(m) /\ Len(IF Cmp(p, q) < 0 THEN p ELSE q) > 0

\* r is a Clone(0) of the larger operand, which copies its pointers; the
\* first len(q) of them are replaced.
AddShares(p, q, m) ==
    SharedTail(1, Len(IF Cmp(p, q) < 0 THEN p ELSE q), Add(p, q, m))

\* r := p.Add(q, m)
CallAdd ==
    /\ polyPc = "call"
    /\ polyOp = "Add"
    /\ IF AddPanics(polyP, polyQ, polyM)
         THEN PolyNoReturn("panic")
         ELSE PolyReturn(<<Add(polyP, polyQ, polyM)>>, AddShares(polyP, polyQ, polyM))
    /\ UNCHANGED <<polyM, polyP, polyQ, polyN, polyOp, polyArgs>>
    /\ UNCHANGED notPolyVars

\* Sub's loop of Mod runs over the larger operand.
SubPanics(p, q, m) == ModPanics(m) /\ Len(IF Cmp(p, q) < 0 THEN q ELSE p) > 0

\* Without the swap r[ln:] are the pointers of p[ln:].
SubShares(p, q, m) ==
    IF Cmp(p, q) < 0 THEN {} ELSE SharedTail(1, Len(q), Sub(p, q, m))

\* p after p.Sub(q, m): without the swap the loop of Mod reduces r[ln:],
\* which are p's own coefficients, where they are.
SubInPlace(p, q, m) ==
    IF Cmp(p, q) < 0 THEN p
    ELSE MakePoly([i \in 1..Len(p) |-> IF i > Len(q) THEN p[i] % m ELSE p[i]])

\* r := p.Sub(q, m)
CallSub ==
    /\ polyPc = "call"
    /\ polyOp = "Sub"
    /\ IF SubPanics(polyP, polyQ, polyM)
         THEN PolyNoReturn("panic") /\ polyP' = polyP
         ELSE /\ PolyReturn(<<Sub(polyP, polyQ, polyM)>>, SubShares(polyP, polyQ, polyM))
              /\ polyP' = SubInPlace(polyP, polyQ, polyM)
    /\ UNCHANGED <<polyM, polyQ, polyN, polyOp, polyArgs>>
    /\ UNCHANGED notPolyVars

\* Mul's sanitize runs Mod over the len(p) + len(q) - 1 coefficients of r.
MulPanics(p, q, m) == ModPanics(m) /\ Len(p) + Len(q) - 1 > 0

\* r := p.Mul(q, m)
CallMul ==
    /\ polyPc = "call"
    /\ polyOp = "Mul"
    /\ IF MulPanics(polyP, polyQ, polyM)
         THEN PolyNoReturn("panic")
         ELSE PolyReturn(<<Mul(polyP, polyQ, polyM)>>, {})
    /\ UNCHANGED <<polyM, polyP, polyQ, polyN, polyOp, polyArgs>>
    /\ UNCHANGED notPolyVars

\* r := p.Exp(e, m)
CallExp ==
    /\ polyPc = "call"
    /\ polyOp = "Exp"
    /\ PolyReturn(<<Exp(polyP, polyN, polyM)>>, {})
    /\ UNCHANGED <<polyM, polyP, polyQ, polyN, polyOp, polyArgs>>
    /\ UNCHANGED notPolyVars

\* r := p.Monic(m): p.Div reduces p where it is.
CallMonic ==
    /\ polyPc = "call"
    /\ polyOp = "Monic"
    /\ IF DivFull(polyP, <<polyP[Len(polyP)]>>, polyM).halts
         THEN PolyReturn(<<Monic(polyP, polyM)>>, {})
         ELSE PolyNoReturn("loop")
    /\ polyP' = SanitizedInPlace(polyP, polyM)
    /\ UNCHANGED <<polyM, polyQ, polyN, polyOp, polyArgs>>
    /\ UNCHANGED notPolyVars

\* r := p.Deriv(m)
CallDeriv ==
    /\ polyPc = "call"
    /\ polyOp = "Deriv"
    /\ PolyReturn(<<Deriv(polyP, polyM)>>, {})
    /\ UNCHANGED <<polyM, polyP, polyQ, polyN, polyOp, polyArgs>>
    /\ UNCHANGED notPolyVars

\* g := p.GCD(q, m): the g of ExtendedGCD.
CallGCD ==
    /\ polyPc = "call"
    /\ polyOp = "GCD"
    /\ IF ExtendedGCDHalts(polyP, polyQ, polyM)
         THEN PolyReturn(<<GCD(polyP, polyQ, polyM)>>, {})
         ELSE PolyNoReturn("loop")
    /\ polyP' = SanitizedInPlace(polyP, polyM)
    /\ polyQ' = IF ~isZero(polyQ) /\ DivFull(polyP, polyQ, polyM).halts
                  THEN SanitizedInPlace(polyQ, polyM) ELSE polyQ
    /\ UNCHANGED <<polyM, polyN, polyOp, polyArgs>>
    /\ UNCHANGED notPolyVars

\* newR after the first round of ModInverse's loop.
ModInverseSecond(p, h, m, d) == Sub(h, Mul(d.quo, p, m), m)

\* ModInverse's loop makes a second round, whose Div has p as its receiver.
ModInverseDividesP(p, h, m, d) ==
    ~isZero(p) /\ d.halts /\ ~isZero(ModInverseSecond(p, h, m, d))

\* r := p.ModInverse(h, m), h being polyQ.  The first round's Div reduces h
\* where it is, the second round's reduces p.
CallModInverse ==
    /\ polyPc = "call"
    /\ polyOp = "ModInverse"
    /\ IF ModInverseHalts(polyP, polyQ, polyM)
         THEN PolyReturn(<<ModInverse(polyP, polyQ, polyM)>>, {})
         ELSE PolyNoReturn("loop")
    /\ polyP' = IF polyM # 1
                    /\ ModInverseDividesP(polyP, polyQ, polyM,
                                          DivFull(polyQ, polyP, polyM))
                  THEN SanitizedInPlace(polyP, polyM) ELSE polyP
    /\ polyQ' = IF polyM # 1 /\ ~isZero(polyP)
                  THEN SanitizedInPlace(polyQ, polyM) ELSE polyQ
    /\ UNCHANGED <<polyM, polyN, polyOp, polyArgs>>
    /\ UNCHANGED notPolyVars

\* v := p.Eval(x, m); the integer v is kept as the constant <<v>>.
CallEval ==
    /\ polyPc = "call"
    /\ polyOp = "Eval"
    /\ PolyReturn(<<<<Eval(polyP, polyN, polyM)>>>>, {})
    /\ UNCHANGED <<polyM, polyP, polyQ, polyN, polyOp, polyArgs>>
    /\ UNCHANGED notPolyVars

PolyOpsNext ==
    \/ CallAdd
    \/ CallSub
    \/ CallMul
    \/ CallExp
    \/ CallDiv
    \/ CallMonic
    \/ CallDeriv
    \/ CallGCD
    \/ CallExtendedGCD
    \/ CallModInverse
    \/ CallEval

SpecPolyOps == PolyOpsInit /\ [][PolyOpsNext]_vars

\* p and h have a common divisor of positive degree in F_m[x].
CommonFactor(p, h, m) ==
    \E g \in ReducedPolys(m, Len(h)) :
        /\ Len(g) > 1
        /\ g[Len(g)] = 1
        /\ Divides(g, p, m)
        /\ Divides(g, h, m)

\* r * p = 1 modulo h in F_m[x]: 1 = r * p + t * h for some t.
IsInverseModulo(r, p, h, m) ==
    \E t \in ReducedPolys(m, Len(r) + Len(p)) : IsCombination(<<1>>, r, p, t, h, m)

\* C11: for every prime m, every h of positive degree and every p,
\* p.ModInverse(h, m) returns nil exactly when p and h have a common divisor
\* of positive degree, and a polynomial r it returns has r * p = 1 modulo h.
ModInverseLaw ==
    /\ polyPc \in {"done", "loop"}
    /\ polyOp = "ModInverse"
    /\ IsPrime(polyM)
    /\ DegMod(polyArgs[2], polyM) > 0
    => /\ (polyPc = "done" /\ polyOut[1] = NilPoly)
            <=> CommonFactor(polyArgs[1], polyArgs[2], polyM)
       /\ polyPc = "done" /\ polyOut[1] # NilPoly
            => IsInverseModulo(polyOut[1], polyArgs[1], polyArgs[2], polyM)

\* p keeps the trim invariant over the integers: its last coefficient is
\* not 0, unless p is [0].
TrimmedOverZ(p) == Len(p) = 1 \/ p[Len(p)] # 0

\* r has its coefficients in [0, m) and keeps the trim invariant.
Canonical(r, m) ==
    /\ Len(r) > 0
    /\ \A i \in 1..Len(r) : r[i] \in 0..(m - 1)
    /\ TrimmedOverZ(r)

\* C12: for inputs that keep the trim invariant over the integers and every
\* modulus m > 1, every polynomial that Add, Sub, Mul, Exp, Div, Monic,
\* Deriv, GCD, ExtendedGCD or ModInverse returns has its coefficients in
\* [0, m) and keeps the trim invariant, zero being [0].
ResultsCanonical ==
    /\ polyPc = "done"
    /\ polyOp # "Eval"
    /\ polyM > 1
    /\ TrimmedOverZ(polyArgs[1])
    /\ polyArgs[2] = NilPoly \/ TrimmedOverZ(polyArgs[2])
    => \A k \in 1..Len(polyOut) :
        polyOut[k] = NilPoly \/ Canonical(polyOut[k], polyM)

\* C13: no function of polynomial.go changes the coefficients of an input,
\* and no returned polynomial shares a coefficient with an input.
InputsUntouched ==
    polyPc = "done"
    => /\ polyP = polyArgs[1]
       /\ polyQ = polyArgs[2]
       /\ polyShared = {}

(***************************************************************************)
(* Schoof with its goroutines scheduled fairly: once Schoof has started    *)
(* them, a goroutine that can take a step is not left waiting forever.     *)
(***************************************************************************)

\* Some goroutine can take a step that changes the state: the guards of the
\* actions of SchoofNext but SchoofStart.  A worker whose pass would start
\* over as it is takes no such step.
CanStep ==
    \/ \E i \in Workers :
          \/ wpc[i] = "loop"
                /\ (ell[i] = 2 \/ TraceModPass(passes, sc, ell[i], qrh[i]).kind # "none")
          \/ wpc[i] = "continue"
          \/ wpc[i] = "send" /\ mpc[i] = "range"
          \/ wpc[i] = "return"
          \/ mpc[i] = "select" /\ (done \/ tpc = "range")
          \/ mpc[i] = "range" /\ wpc[i] = "closed"
    \/ dpc # "start" /\ ~streamClosed /\ \A i \in Workers : mpc[i] = "done"
    \/ tpc = "range" /\ streamClosed
    \/ tpc = "select" /\ (done \/ dpc = "range")
    \/ dpc = "range" /\ chClosed

\* Weak fairness of the steps after SchoofStart, with CanStep for ENABLED.
SchoofFairness == []<>(~CanStep) \/ []<><<SchoofNext>>_vars

SpecSchoofFair == SpecSchoof /\ SchoofFairness

\* The workers of the odd primes.
OddWorkers == {i \in Workers : ell[i] # 2}

\* Worker i has sent its Trace.
Posted(i) == wpc[i] \in {"return", "closed"}

\* A worker is never left with a pass that neither sends nor retries, what
\* it sends is a trace or ErrNoCharacterPoly, and Schoof returns that error.
WorkerOutcome ==
    /\ \A i \in OddWorkers :
          /\ wpc[i] # "panic"
          /\ wpc[i] = "loop"
               => TraceModPass(passes, sc, ell[i], qrh[i]).kind \in {"trace", "err"}
          /\ wpc[i] \in {"send", "return", "closed"}
               => wtrace[i].err \in {Nil, ErrNoCharacterPoly}
    /\ dpc = "returned" /\ (\E i \in OddWorkers : wtrace[i].err = ErrNoCharacterPoly)
         => ret.err = ErrNoCharacterPoly

AllPosted == \A i \in OddWorkers : Posted(i)

IntegerSum(p, q) ==
    trim(MakePoly([i \in 1..(IF Len(p) > Len(q) THEN Len(p) ELSE Len(q))
                     |-> CoefAt(p, i) + CoefAt(q, i)]))

IntegerDifference(p, q) ==
    trim(MakePoly([i \in 1..(IF Len(p) > Len(q) THEN Len(p) ELSE Len(q))
                     |-> CoefAt(p, i) - CoefAt(q, i)]))

RECURSIVE ConvolutionSum(_, _, _, _)
ConvolutionSum(p, q, k, i) ==
    IF i > Len(p) THEN 0
    ELSE (IF k - i + 1 \in 1..Len(q) THEN p[i] * q[k - i + 1] ELSE 0)
           + ConvolutionSum(p, q, k, i + 1)

IntegerProduct(p, q) ==
    trim(MakePoly([k \in 1..(Len(p) + Len(q) - 1) |-> ConvolutionSum(p, q, k, 1)]))

IntegerResult(op, p, q) ==
    IF op = "Add" THEN IntegerSum(p, q)
    ELSE IF op = "Sub" THEN IntegerDifference(p, q)
    ELSE IntegerProduct(p, q)

\* C17: Add, Sub and Mul called with m = nil end without failing and
\* return the sum, the difference or the product of their operands over the
\* integers, trimmed.
NilModulusAccepted ==
    polyM = NilInt /\ polyPc # "call"
    => /\ polyPc = "done"
       /\ polyOut = <<IntegerResult(polyOp, polyArgs[1], polyArgs[2])>>

\* Deriv is called on [5, -4, 3, 3] with modulus 7 and has returned.
DerivOfLiteralReturned ==
    /\ polyPc = "done"
    /\ polyOp = "Deriv"
    /\ polyArgs[1] = <<5, -4, 3, 3>>
    /\ polyM = 7

\* C18: Deriv applied to [5, -4, 3, 3] (5 - 4x + 3x^2 + 3x^3) with modulus 7
\* returns [3, 6, 2], the derivative -4 + 6x + 9x^2 reduced modulo 7.
DerivOfLiteral == DerivOfLiteralReturned => polyOut = <<(<<3, 6, 2>>)>>

\* C18 as stated: the call returns [0, 0, 3].
DerivOfLiteralAsStated == DerivOfLiteralReturned => polyOut = <<(<<0, 0, 3>>)>>

\* The call of C18 has returned a polynomial of three coefficients.
DerivOfLiteralDone == DerivOfLiteralReturned /\ Len(polyOut[1]) = 3

(***************************************************************************)
(* DivPoly called on a curve for n = 0 .. MaxDivPolyN in any order, in the *)
(* 32-bit or the 64-bit build; the cache of the curve fills as it goes.    *)
(***************************************************************************)

MaxDivPolyN == 5

\* The fields whose curves are all taken.
SmallFields == {5, 7}

\* y^2 = x^3 + Ax + B over F_p is not singular.
NonSingular(p, a, b) == (4 * a * a * a + 27 * b * b) % p # 0

\* Every curve over the small fields, the curve of TestECDLP and the first
\* curve of TestSchoof.
SmallCurves(p) ==
    {c \in [P : {p}, A : 0..(p - 1), B : 0..(p - 1)] : NonSingular(c.P, c.A, c.B)}

DivPolyCurves ==
    UNION {SmallCurves(p) : p \in SmallFields}
      \cup {[P |-> 7919, A |-> 1001, B |-> 75], [P |-> 97, A |-> 46, B |-> 74]}

DivPolyInit ==
    /\ intSize \in {32, 64}
    /\ dvCurve \in DivPolyCurves
    /\ dvCache = << >>
    /\ dvN = 0
    /\ dvOut = NilPoly
    /\ dvPc = "call"
    /\ SchoofIdle
    /\ DLPIdle
    /\ GroupIdle
    /\ SignIdle
    /\ MarshalIdle
    /\ PolyIdle
    /\ ScalarMulIdle
    /\ CRTIdle

\* c.DivPoly(n)
CallDivPoly(n) ==
    /\ dvPc \in {"call", "done"}
    /\ dvN' = n
    /\ dvCache' = DivPolyCache(dvCurve, n, dvCache)
    /\ dvOut' = dvCache'[n]
    /\ dvPc' = "done"
    /\ UNCHANGED <<dvCurve, intSize>>
    /\ UNCHANGED notDivPolyVars

DivPolyNext == \E n \in 0..MaxDivPolyN : CallDivPoly(n)

SpecDivPoly == DivPolyInit /\ [][DivPolyNext]_vars

\* p with its coefficients reduced mod m, trimmed.
ReducedMod(p, m) == trim(MakePoly([i \in 1..Len(p) |-> p[i] % m]))

\* The product of p and q in F_m[x], for coefficients in [0, m).
ProductMod(p, q, m) == ReducedMod(IntegerProduct(p, q), m)

\* f = x^3 + Ax + B
Weierstrass(c) == <<c.B, c.A, 0, 1>>

\* x^6 + 5Ax^4 + 20Bx^3 - 5A^2x^2 - 4ABx - 8B^2 - A^3 in F_p[x]
Psi4Factor(a, b, p) ==
    <<(-(8 * ((b * b) % p)) - ((((a * a) % p) * a) % p)) % p,
      (-(4 * ((a * b) % p))) % p,
      (-(5 * ((a * a) % p))) % p,
      (20 * b) % p,
      (5 * a) % p,
      0,
      1>>

\* The base cases as stated: psi_0 = 0, psi_1 = 1, psi_2 = 4f,
\* psi_3 = 3x^4 + 6Ax^2 + 12Bx - A^2 and psi_4 = 4f * Psi4Factor.
BaseCase(c, n) ==
    IF n = 0 THEN <<0>>
    ELSE IF n = 1 THEN <<1>>
    ELSE IF n = 2 THEN ProductMod(<<4>>, ReducedMod(Weierstrass(c), c.P), c.P)
    ELSE IF n = 3
      THEN ReducedMod(<<-((c.A * c.A) % c.P), 12 * c.B, 6 * c.A, 0, 3>>, c.P)
    ELSE ProductMod(ProductMod(<<4>>, ReducedMod(Weierstrass(c), c.P), c.P),
                     Psi4Factor(c.A, c.B, c.P), c.P)

\* C19: for every curve (p, A, B), DivPoly returns for n = 0 .. 4 the base
\* cases reduced mod p: psi_0 = 0, psi_1 = 1, psi_2 = 4f,
\* psi_3 = 3x^4 + 6Ax^2 + 12Bx - A^2 and
\* psi_4 = 4f * (x^6 + 5Ax^4 + 20Bx^3 - 5A^2x^2 - 4ABx - 8B^2 - A^3).
DivPolyBaseCases ==
    dvPc = "done" /\ dvN \in 0..4 => dvOut = BaseCase(dvCurve, dvN)

\* C20: in every interleaving of the workers and the fan-in goroutines the
\* i-th trace that Schoof has appended to tr is the trace that the worker of
\* the i-th prime has sent, so that CRT pairs tr[i] with ell[i].
TracesInSpawnOrder ==
    \A i \in 1..Len(tr) : Posted(i) /\ tr[i] = wtrace[i].tr

(***************************************************************************)
(* Schoof on a curve where the workers of two primes get ErrZeroDivision:  *)
(* on y^2 = x^3 + x + 1 over F_19 (21 points) both the worker of 3 and the *)
(* worker of 5 store a factor in DivPolyFactor and read it back.           *)
(***************************************************************************)

RaceCases == {[P |-> 19, A |-> 1, B |-> 1, N |-> 21]}

SchoofRaceInit ==
    /\ DivPolyIdle
    /\ ScalarMulIdle
    /\ CRTIdle
    /\ sc \in RaceCases
    /\ ell = << >>
    /\ tr = << >>
    /\ dpc = "start"
    /\ ret = [order |-> 0, err |-> Nil]
    /\ done = FALSE
    /\ wpc = << >>
    /\ qrh = << >>
    /\ wtrace = << >>
    /\ DivPolyFactor = NilPoly
    /\ mpc = << >>
    /\ ms = << >>
    /\ streamClosed = FALSE
    /\ tpc = "idle"
    /\ tv = NoTrace
    /\ chClosed = FALSE
    /\ passes = FixtureAttempts(sc)
    /\ DLPIdle
    /\ GroupIdle
    /\ SignIdle
    /\ MarshalIdle
    /\ PolyIdle

SpecSchoofRace == SchoofRaceInit /\ [][SchoofNext]_vars

\* The factor that the failed pass of worker i stored: the denominator whose
\* inversion failed in the pass with the modulus the worker still holds.
OwnFactor(i) == TraceModPass(passes, sc, ell[i], qrh[i]).factor

\* C21: the workers share no mutable state: the polynomial that a worker is
\* about to take the gcd of its modulus with, after ErrZeroDivision, is the
\* denominator whose inversion failed in that worker, never a value that
\* another worker wrote.
RefinesWithOwnFactor ==
    \A i \in Workers : wpc[i] = "continue" => DivPolyFactor = OwnFactor(i)

(***************************************************************************)
(* What a TraceMod goroutine puts on its channel.                          *)
(***************************************************************************)

SpecSchoofRaceFair == SpecSchoofRace /\ SchoofFairness

\* One step of the goroutines seen from the channel of worker i: a value is
\* received from the channel only when the worker sends, the worker sends
\* from its send statement only and returns with it, the channel is closed
\* only by a worker that has sent, and a worker that has sent neither sends
\* again nor reopens the channel.
ChannelStep(i) ==
    /\ mpc[i] # "select" /\ mpc'[i] = "select"
         => wpc[i] = "send" /\ wpc'[i] = "return" /\ ms'[i] = wtrace[i]
    /\ wpc[i] # "closed" /\ wpc'[i] = "closed" => wpc[i] = "return"
    /\ wpc[i] = "return" => wpc'[i] \in {"return", "closed"}
    /\ wpc[i] = "closed" => wpc'[i] = "closed"

AllClosed == \A i \in Workers : wpc[i] = "closed"

Terminated ==
    /\ \A i \in Workers : wpc[i] = "closed" /\ mpc[i] = "done"
    /\ streamClosed
    /\ tpc = "done"
    /\ chClosed

\* A step that forwards a message: a multiplex goroutine hands its value to
\* toTrace, or toTrace hands its trace to Schoof.
Forwards ==
    \/ tpc = "range" /\ tpc' = "select"
    \/ tr' # tr

MaxField == 100

PrimeFields == {q \in 5..MaxField : ProbablyPrime(q)}

\* Schoof is called on a curve over each of the fields.
SchoofPrimesInit ==
    /\ DivPolyIdle
    /\ ScalarMulIdle
    /\ CRTIdle
    /\ \E q \in PrimeFields, b \in {19, 22, 37} :
          sc = [P |-> q, A |-> 2, B |-> b, N |-> 0]
    /\ ell = << >>
    /\ tr = << >>
    /\ dpc = "start"
    /\ ret = [order |-> 0, err |-> Nil]
    /\ done = FALSE
    /\ wpc = << >>
    /\ qrh = << >>
    /\ wtrace = << >>
    /\ DivPolyFactor = NilPoly
    /\ mpc = << >>
    /\ ms = << >>
    /\ streamClosed = FALSE
    /\ tpc = "idle"
    /\ tv = NoTrace
    /\ chClosed = FALSE
    /\ passes = << >>
    /\ DLPIdle
    /\ GroupIdle
    /\ SignIdle
    /\ MarshalIdle
    /\ PolyIdle

SpecSchoofPrimes == SchoofPrimesInit /\ [][SchoofStart]_vars

\* l is 2, 3, 5, ...: the primes in order, none left out.
ConsecutivePrimes(l) ==
    /\ Len(l) >= 1
    /\ l[1] = 2
    /\ \A i \in 2..Len(l) :
          /\ ProbablyPrime(l[i])
          /\ \A n \in (l[i - 1] + 1)..(l[i] - 1) : ~ProbablyPrime(n)

\* C24: the workers Schoof has started are those of the consecutive primes
\* 2, 3, 5, ..., and their product M is above 4 * sqrt(q), that is
\* M * M > 16 * q.
PrimesCoverHasse ==
    dpc = "range" =>
        /\ ConsecutivePrimes(ell)
        /\ Product(ell) * Product(ell) > 16 * sc.P

(***************************************************************************)
(* CRT, called by Schoof after its range loop and called directly.  The    *)
(* moduli of a direct call may be wider than an int64: a modulus is kept   *)
(* as [k, m], the integer Wide^k * m with Wide = 2^64 + 1 and m small      *)
(* (so m has no factor in common with Wide = 274177 * 67280421310721).     *)
(* On such integers the product, the exact quotient and the gcd are        *)
(* computed on k and m, and the low 64 bits of Wide^k * m are m.           *)
(***************************************************************************)

MaxModulus == 6
MaxResidue == 5
CRTFields == {19, 59, 97}

Narrow(n) == [i \in 1..Len(n) |-> [k |-> 0, m |-> n[i]]]
SmallParts(n) == [i \in 1..Len(n) |-> n[i].m]
IsNarrow(n) == \A i \in 1..Len(n) : n[i].k = 0

\* z.GCD(nil, &s, x, &q) followed by z.Int64() for x = n[i] and q = p / x:
\* the gcd is Wide^min * gcd(m, M / m), and Int64 keeps its low 64 bits.
GcdInt64(n, i) ==
    IntGCD(n[i].m, Product(SmallParts(n)) \div n[i].m)

\* The gcd of n[i] and p / n[i] does not fit an int64: Wide divides both.
GcdIsWide(n, i) ==
    n[i].k >= 1 /\ \E j \in 1..Len(n) : j # i /\ n[j].k >= 1

\* crt(a, n).  With every modulus narrow it is CRT; a call with a wide
\* modulus is made with residues 0 only, and the sum c is then 0.
CRTWide(a, n) ==
    IF \E i \in 1..Len(n) : GcdInt64(n, i) # 1
      THEN [ok |-> FALSE, v |-> 0]
      ELSE IF IsNarrow(n) THEN CRT(a, SmallParts(n))
      ELSE [ok |-> TRUE, v |-> 0]

Residues(len) == [1..len -> (-1)..MaxResidue]
NarrowModuli(len) == [1..len -> 2..MaxModulus]
WideModuli == [1..2 -> [k : 0..1, m : 1..3]] \ {n \in [1..2 -> [k : 0..1, m : 1..3]] : IsNarrow(n)}

CRTInit ==
    /\ \/ /\ crtPc = "crt"
          /\ crtField = 0
          /\ \E len \in 2..3 :
                /\ crtRes \in [1..len -> (-1)..1]
                /\ \E n \in NarrowModuli(len) : crtMod = Narrow(n)
       \/ /\ crtPc = "crt"
          /\ crtField = 0
          /\ crtRes = <<0, 0>>
          /\ crtMod \in WideModuli
       \/ /\ crtPc = "schoof"
          /\ crtField \in CRTFields
          /\ crtMod = Narrow(SchoofEll([P |-> crtField]))
          /\ crtRes \in {a \in Residues(Len(crtMod)) :
                           \A i \in 1..Len(crtMod) :
                               IF crtMod[i].m = 2 THEN a[i] \in 0..1
                               ELSE a[i] <= crtMod[i].m - 2}
    /\ crtOut = [ok |-> FALSE, v |-> 0]
    /\ SchoofIdle
    /\ DLPIdle
    /\ GroupIdle
    /\ SignIdle
    /\ MarshalIdle
    /\ PolyIdle
    /\ DivPolyIdle
    /\ ScalarMulIdle

\* crt(a, n), called directly.  Int64 of a value that does not fit is
\* documented as undefined: math/big returns the low 64 bits, and any other
\* result makes crt return nil.
CallCRT ==
    /\ crtPc = "crt"
    /\ \/ crtOut' = CRTWide(crtRes, crtMod)
       \/ /\ \E i \in 1..Len(crtMod) : GcdIsWide(crtMod, i)
          /\ crtOut' = [ok |-> FALSE, v |-> 0]
    /\ crtPc' = "done"
    /\ UNCHANGED <<crtField, crtRes, crtMod>>
    /\ UNCHANGED notCRTVars

\* Schoof from the end of its range loop, with tr = a and ell = n: CRT, the
\* shift into the signed range, and the order it returns.
SchoofAfterRange ==
    /\ crtPc = "schoof"
    /\ crtOut' = [ok |-> TRUE, v |-> SchoofOrder(crtField, crtRes, SmallParts(crtMod))]
    /\ crtPc' = "done"
    /\ UNCHANGED <<crtField, crtRes, crtMod>>
    /\ UNCHANGED notCRTVars

CRTNext == CallCRT \/ SchoofAfterRange

SpecCRT == CRTInit /\ [][CRTNext]_vars

\* Two of the moduli have a common factor.
ShareFactor(n) ==
    \E i, j \in 1..Len(n) :
        /\ i < j
        /\ \/ n[i].k >= 1 /\ n[j].k >= 1
           \/ IntGCD(n[i].m, n[j].m) > 1

\* The t with -M/2 <= t < M/2 and t = a[i] mod n[i] for every i, for n the
\* primes 2, 3, 5, ... of product M.
SignedTrace(a, n) ==
    CHOOSE t \in (-(Product(n) \div 2))..(Product(n) \div 2 - 1) :
        \A i \in 1..Len(n) : (t - a[i]) % n[i] = 0

\* C25: from one residue per prime Schoof returns q + 1 - t for the t in
\* [-M/2, M/2) with these residues; crt returns a value in [0, M) with the
\* residues given when the moduli are pairwise coprime, and none when two
\* moduli share a factor.
CRTAsStated ==
    crtPc = "done" =>
        /\ crtField # 0 =>
              LET n == SmallParts(crtMod)
              IN /\ \E t \in (-(Product(n) \div 2))..(Product(n) \div 2 - 1) :
                        \A i \in 1..Len(n) : (t - crtRes[i]) % n[i] = 0
                 /\ crtOut.v = crtField + 1 - SignedTrace(crtRes, n)
        /\ crtField = 0 /\ ShareFactor(crtMod) => ~crtOut.ok
        /\ crtField = 0 /\ ~ShareFactor(crtMod) =>
              /\ crtOut.ok
              /\ IsNarrow(crtMod) =>
                    /\ crtOut.v \in 0..(Product(SmallParts(crtMod)) - 1)
                    /\ \A i \in 1..Len(crtMod) :
                          (crtOut.v - crtRes[i]) % crtMod[i].m = 0

(***************************************************************************)
(* The modulus of a worker across a recovery from ErrZeroDivision.         *)
(***************************************************************************)

\* Worker i takes the step "qr.h = qr.h.GCD(DivPolyFactor, q)".
Recovers(i) == wpc[i] = "continue" /\ wpc'[i] = "loop"

\* g is a monic divisor of h over F_q, of degree at least 1 and less than
\* the degree of h.
ProperMonicDivisor(g, h, q) ==
    /\ g[Len(g)] = 1
    /\ 1 <= Deg(g)
    /\ Deg(g) < Deg(h)
    /\ isZero(Div(h, g, q)[2])

\* C26: each recovery of an odd-prime worker from ErrZeroDivision replaces
\* its modulus h by a monic divisor of h of degree at least 1 and less than
\* deg h (so a worker recovers at most deg psi_l times).
RecoveryShrinksModulus ==
    [][\A i \in Workers :
          Recovers(i) => ProperMonicDivisor(qrh'[i], qrh[i], sc.P)]_vars

(***************************************************************************)
(* The walkers of PollardRho.                                              *)
(***************************************************************************)

\* a * (px, py) + b * (hx, hy) on the curve of the run.
RhoCombination(a, b) ==
    LET v == ScalarMult(dlpCurve, dlpCurve.Gx, dlpCurve.Gy, a)
        u == ScalarMult(dlpCurve, dlpH[1], dlpH[2], b)
    IN CurveAdd(dlpCurve, v[1], v[2], u[1], u[2])

\* The walker w is at a * P + b * Q, with a and b in [0, N).
WalkerOnLine(w) ==
    /\ w.a \in 0..(dlpCurve.N - 1)
    /\ w.b \in 0..(dlpCurve.N - 1)
    /\ <<w.x, w.y>> = RhoCombination(w.a, w.b)

\* The second walker between the two applications of f of its next step.
RhoHalfStep == RhoF(dlpCurve, dlpCurve.Gx, dlpCurve.Gy, dlpH[1], dlpH[2], rhoW2)

ParityFields == {3, 5, 7, 11, 13}

\* The number of points of y^2 = x^3 + Ax + B over F_p, with the point at
\* infinity.
PointCount(p, a, b) ==
    1 + Cardinality({pt \in (0..(p - 1)) \X (0..(p - 1)) :
                        (pt[2] * pt[2]) % p
                          = (pt[1] * pt[1] * pt[1] + a * pt[1] + b) % p})

\* f = x^3 + Ax + B has a root in F_p.
HasRoot(p, a, b) == \E x \in 0..(p - 1) : (x * x * x + a * x + b) % p = 0

TraceModTwoInit ==
    /\ DivPolyIdle
    /\ ScalarMulIdle
    /\ CRTIdle
    /\ \E p \in ParityFields :
          \E c \in SmallCurves(p) :
              /\ sc = [P |-> c.P, A |-> c.A, B |-> c.B, N |-> PointCount(c.P, c.A, c.B)]
              /\ qrh = <<TraceModStart(c, 2)>>
    /\ ell = <<2>>
    /\ tr = << >>
    /\ dpc = "range"
    /\ ret = [order |-> 0, err |-> Nil]
    /\ done = FALSE
    /\ wpc = <<"loop">>
    /\ wtrace = <<NoTrace>>
    /\ DivPolyFactor = NilPoly
    /\ mpc = <<"range">>
    /\ ms = <<NoTrace>>
    /\ streamClosed = FALSE
    /\ tpc = "range"
    /\ tv = NoTrace
    /\ chClosed = FALSE
    /\ passes = << >>
    /\ DLPIdle
    /\ GroupIdle
    /\ SignIdle
    /\ MarshalIdle
    /\ PolyIdle

TraceModTwoNext ==
    \/ \E i \in Workers : WorkerPass(i)
    \/ \E i \in Workers : WorkerSend(i)
    \/ \E i \in Workers : WorkerClose(i)

SpecTraceModTwo == TraceModTwoInit /\ [][TraceModTwoNext]_vars

\* C28: the worker of l = 2 posts 1 when f has no root in F_q and 0 when it
\* has one, and what it posts is the trace q + 1 - #E modulo 2.
ParityOfTrace ==
    \A i \in Workers :
        ell[i] = 2 /\ wpc[i] \in {"send", "return", "closed"} =>
            /\ wtrace[i].err = Nil
            /\ wtrace[i].tr = (IF HasRoot(sc.P, sc.A, sc.B) THEN 0 ELSE 1)
            /\ (sc.P + 1 - sc.N - wtrace[i].tr) % 2 = 0

\* The worker has posted 1 on a curve over F_13 whose f has no root.
OddTracePosted ==
    /\ Len(ell) = 1
    /\ sc.P = 13
    /\ wpc[1] = "closed"
    /\ ms[1].tr = 1
    /\ ~HasRoot(sc.P, sc.A, sc.B)

(***************************************************************************)
(* ScalarMul on endomorphisms of E[ell], for the curves of TestSchoof.     *)
(***************************************************************************)

MaxMul == 8

\* The ring of TraceMod for the prime l on the curve c.
TorsionRing(c, l) == [h |-> TraceModStart(c, l), q |-> c.P]

\* The identity (x, 1) and the Frobenius endomorphism in the ring qr.
IdentityEnd(qr) == NewEnd(qr, <<0, 1>>, <<1>>)
FrobeniusEnd(qr, f) ==
    NewEnd(qr, QringExp(qr, <<0, 1>>, qr.q), QringExp(qr, f, qr.q \div 2))

ScalarMulInit ==
    /\ DivPolyIdle
    /\ \E k \in 1..Len(SchoofCases) :
          smCurve = [P |-> SchoofCases[k].P, A |-> SchoofCases[k].A,
                     B |-> SchoofCases[k].B]
    /\ \E l \in {3, 5} : smRing = TorsionRing(smCurve, l)
    /\ smEnd \in {IdentityEnd(smRing), FrobeniusEnd(smRing, CurvePoly(smCurve))}
    /\ smK \in 0..MaxMul
    /\ smOut = [end |-> NilEndo, err |-> Nil, factor |-> NilPoly]
    /\ smPc = "call"
    /\ SchoofIdle
    /\ DLPIdle
    /\ GroupIdle
    /\ SignIdle
    /\ MarshalIdle
    /\ PolyIdle
    /\ CRTIdle

\* ScalarMul(pe, n, A, f)
CallScalarMul ==
    /\ smPc = "call"
    /\ smOut' = ScalarMul(smRing, smEnd, smK, smCurve.A, CurvePoly(smCurve))
    /\ smPc' = "done"
    /\ UNCHANGED <<smCurve, smRing, smEnd, smK>>
    /\ UNCHANGED notScalarMulVars

SpecScalarMul == ScalarMulInit /\ [][CallScalarMul]_vars

\* The k-fold sum of pe under Add, from the null endomorphism; the first
\* error ends it.
RECURSIVE KFoldEndoAdd(_, _, _, _, _)
KFoldEndoAdd(qr, pe, k, A, f) ==
    IF k = 0 THEN EndoOk(NilEndo)
    ELSE LET s == KFoldEndoAdd(qr, pe, k - 1, A, f)
         IN IF s.err # Nil THEN s ELSE EndoAdd(qr, s.end, pe, A, f)

\* C29: when neither ScalarMul nor the sum meets ErrZeroDivision,
\* ScalarMul(P, k) is the k-fold sum of P under Add: the null endomorphism
\* for k = 0 and P for k = 1.
ScalarMulIsKFoldSum ==
    smPc = "done" /\ smOut.err = Nil =>
        LET s == KFoldEndoAdd(smRing, smEnd, smK, smCurve.A, CurvePoly(smCurve))
        IN /\ s.err = Nil => smOut.end = s.end
           /\ smK = 0 => smOut.end = NilEndo
           /\ smK = 1 => smOut.end = smEnd

(***************************************************************************)
(* The int arguments of psi_3 and psi_4 against their exact values.        *)
(***************************************************************************)

\* -a*a, 12*b, 6*a, 0, 3 over the integers, reduced mod p.
ExactPsi3(a, b, p) ==
    <<(-((a * a) % p)) % p, (12 * b) % p, (6 * a) % p, 0, 3 % p>>

\* -64*b*b - 8*a*a*a, -32*a*b, -40*a*a, 160*b, 40*a, 0, 8 over the integers,
\* reduced mod p.
ExactPsi4(a, b, p) ==
    <<((-(64 * ((b * b) % p))) - 8 * ((((a * a) % p) * a) % p)) % p,
      (-(32 * ((a * b) % p))) % p,
      (-(40 * ((a * a) % p))) % p,
      (160 * b) % p,
      (40 * a) % p,
      0,
      8 % p>>

\* C30: the coefficients that DivPoly builds with machine integers for psi_3
\* and psi_4 are the exact integer values reduced mod p, so that psi_3 and
\* psi_4 are what the exact coefficients give: no overflow changes them.
MachineCoefficientsExact ==
    dvPc = "done" =>
        /\ dvN = 3 =>
              dvOut = sanitize(ExactPsi3(dvCurve.A, dvCurve.B, dvCurve.P), dvCurve.P)
        /\ dvN = 4 =>
              dvOut = Mul(ExactPsi4(dvCurve.A, dvCurve.B, dvCurve.P),
                          CurvePoly(dvCurve), dvCurve.P)

=============================================================================
